---- MODULE Spec2Model ----
(***************************************************************************)
(* EPD ingestion: scripts/database/02_store_epds_in_db.py against the      *)
(* schema of scripts/database/01_create_database.py.                      *)
(*                                                                         *)
(* Representation of Python/JSON values:                                   *)
(*   - a JSON object is a TLA+ record; an absent key is a key that is not  *)
(*     in the record's DOMAIN (Has, Get model `in` and dict.get);          *)
(*   - a JSON array is a sequence;                                         *)
(*   - opaque strings (UUID, version, language code, module, ...) are TLA+ *)
(*     strings, with None the Python None of such a field;                 *)
(*   - strings the program looks into (classification names and values,    *)
(*     flow descriptions, dictionary terms) are texts: sequences of        *)
(*     one-character strings, with NoneText the Python None;               *)
(*   - a multilingual map (an insertion-ordered dict) is a sequence of     *)
(*     [lang, value] records with pairwise different lang.                 *)
(***************************************************************************)
EXTENDS Integers, Sequences, FiniteSets, TLC

\* ------------------------------------------------------------------ bounds
\* Folders in the data directory, files in a folder, runs of the ingestion.
MaxFolders == 2
MaxFiles == 2
MaxRuns == 2

\* ------------------------------------------------------------ Python values
None == "<None>"
NoneText == << "<None>" >>
NoneInt == 0 - 1
\* the level of a classification class without a level key: cl.get("level", "")
NoLevel == 0 - 1
EmptyDict == [k \in {} |-> k]

Has(d, k) == k \in DOMAIN d
Get(d, k, default) == IF k \in DOMAIN d THEN d[k] ELSE default
\* a list comprehension [e for x in xs], built once as a tuple
list(f) == f \o << >>

RECURSIVE Concat(_)
Concat(ss) == IF ss = << >> THEN << >> ELSE Head(ss) \o Concat(Tail(ss))
Range(s) == { s[i] : i \in 1..Len(s) }

\* ------------------------------------------------------------------- texts
Upper == << "A","B","C","D","E","F","G","H","I","J","K","L","M",
            "N","O","P","Q","R","S","T","U","V","W","X","Y","Z" >>
Lower == << "a","b","c","d","e","f","g","h","i","j","k","l","m",
            "n","o","p","q","r","s","t","u","v","w","x","y","z" >>
Digits == { "0","1","2","3","4","5","6","7","8","9" }
Whitespace == { " " }

\* str.lower() on one character and on a text
to_lower == [c \in Range(Upper) |-> Lower[CHOOSE i \in 1..Len(Upper) : Upper[i] = c]]
lower_char(c) == IF c \in DOMAIN to_lower THEN to_lower[c] ELSE c
str_lower(t) == list([i \in 1..Len(t) |-> lower_char(t[i])])

\* str.replace(",", "")
str_remove_commas(t) == SelectSeq(t, LAMBDA c : c # ",")

\* str.strip()
RECURSIVE str_lstrip(_)
str_lstrip(t) ==
    IF t # << >> /\ Head(t) \in Whitespace THEN str_lstrip(Tail(t)) ELSE t
RECURSIVE str_rstrip(_)
str_rstrip(t) ==
    IF t # << >> /\ t[Len(t)] \in Whitespace
    THEN str_rstrip(SubSeq(t, 1, Len(t) - 1)) ELSE t
str_strip(t) == str_rstrip(str_lstrip(t))

\* ------------------------------------------------------- Translation Lookup
\* The rows of translations.csv: sequences of cells.
TranslationRows ==
    << << << "H","o","l","z" >>, << "W","o","o","d" >> >>,
       << << "B","e","t","o","n" >>, << "C","o","n","c","r","e","t","e" >> >>,
       << << "S","t","a","h","l" >> >>,
       << << "G","l","a","s" >>, << " " >> >> >>

\* load_translations: keyed by the stripped, lower-cased German term
RECURSIVE load_rows(_, _)
load_rows(rows, translations) ==
    IF rows = << >> THEN translations
    ELSE LET row == Head(rows)
             german == str_strip(row[1])
             english == str_strip(row[2])
         IN  IF Len(row) >= 2 /\ german # << >> /\ english # << >>
             THEN load_rows(Tail(rows),
                     (str_lower(german) :> english) @@ translations)
             ELSE load_rows(Tail(rows), translations)
load_translations == load_rows(TranslationRows, EmptyDict)

\* translate_text: [text, not_found], the value returned and the global
\* not_found_translations list after the call
translate_text(text, translations, not_found) ==
    IF text = NoneText \/ text = << >>
    THEN [text |-> text, not_found |-> not_found]
    ELSE LET cleaned_text == str_strip(str_lower(str_remove_commas(text)))
         IN  IF cleaned_text \notin DOMAIN translations
             THEN [text |-> text,
                   not_found |-> IF text \in Range(not_found) THEN not_found
                                 ELSE Append(not_found, text)]
             ELSE [text |-> translations[cleaned_text], not_found |-> not_found]

\* ------------------------------------------------------- Indicator Resolver
target_indicators ==
    << << "P","E","R","E" >>,
       << "P","E","R","M" >>,
       << "P","E","R","T" >>,
       << "P","E","N","R","E" >>,
       << "P","E","N","R","M" >>,
       << "P","E","N","R","T" >>,
       << "S","M" >>,
       << "R","S","F" >>,
       << "N","R","S","F" >>,
       << "F","W" >>,
       << "H","W","D" >>,
       << "N","H","W","D" >>,
       << "R","W","D" >>,
       << "C","R","U" >>,
       << "M","F","R" >>,
       << "M","E","R" >>,
       << "E","E","E" >>,
       << "E","E","T" >>,
       << "G","W","P","-","t","o","t","a","l" >>,
       << "G","W","P","-","b","i","o","g","e","n","i","c" >>,
       << "G","W","P","-","f","o","s","s","i","l" >>,
       << "G","W","P","-","l","u","l","u","c" >>,
       << "O","D","P" >>,
       << "P","O","C","P" >>,
       << "A","P" >>,
       << "E","P","-","t","e","r","r","e","s","t","r","i","a","l" >>,
       << "E","P","-","f","r","e","s","h","w","a","t","e","r" >>,
       << "E","P","-","m","a","r","i","n","e" >>,
       << "W","D","P" >>,
       << "A","D","P","E" >>,
       << "A","D","P","F" >>,
       << "H","T","P","-","c" >>,
       << "H","T","P","-","n","c" >>,
       << "P","M" >>,
       << "I","R" >>,
       << "E","T","P","-","f","w" >>,
       << "S","Q","P" >> >>

\* a regular-expression word character, and \b between t[p-1] and t[p]
WordChars == Range(Upper) \cup Range(Lower) \cup Digits \cup { "_" }
is_word_char(c) == c \in WordChars
word_at(t, p) == p >= 1 /\ p <= Len(t) /\ is_word_char(t[p])
word_boundary(t, p) == word_at(t, p - 1) # word_at(t, p)

\* a faulty variant of the pattern: the word boundaries are missing
re_search_anywhere(k, t) ==
    \E i \in 1..(Len(t) - Len(k) + 1) : SubSeq(t, i, i + Len(k) - 1) = k
\* re.search(rf'\b{re.escape(key)}\b', lang_text, re.IGNORECASE) is not None,
\* with k the lower-cased key and t the lower-cased text
re_search_lowered(k, t) ==
    \E i \in 1..(Len(t) - Len(k) + 1) :
        /\ t[i] = k[1]
        /\ word_boundary(t, i)
        /\ word_boundary(t, i + Len(k))
        /\ SubSeq(t, i, i + Len(k) - 1) = k
re_search_word(key, lang_text) == re_search_lowered(str_lower(key), str_lower(lang_text))

\* the loops of get_indicator_key over the values of the dict, in dict
\* order, and over the candidate set in its iteration order `order`;
\* re.search raises TypeError on a value that is None
RECURSIVE indicator_scan(_, _)
indicator_scan(values, order) ==
    IF values = << >> THEN [raised |-> FALSE, key |-> NoneText]
    ELSE LET lang_text == Head(values)
             hits == { i \in 1..Len(order) : re_search_word(order[i], lang_text) }
         IN  IF lang_text = NoneText
             THEN [raised |-> order # << >>, key |-> NoneText]
             ELSE IF hits # {}
                  THEN [raised |-> FALSE,
                        key |-> order[CHOOSE i \in hits : \A j \in hits : i <= j]]
                  ELSE indicator_scan(Tail(values), order)

get_indicator_key(multilang_dict, order) ==
    indicator_scan(list([i \in 1..Len(multilang_dict) |-> multilang_dict[i].value]), order)

\* --------------------------------------------------------- multilingual map
\* dict assignment d[lang] = value on an insertion-ordered dict
ml_put(d, lang, value) ==
    IF \E i \in 1..Len(d) : d[i].lang = lang
    THEN list([i \in 1..Len(d) |->
            IF d[i].lang = lang THEN [lang |-> lang, value |-> value] ELSE d[i]])
    ELSE Append(d, [lang |-> lang, value |-> value])

\* dict.get(lang)
ml_get(d, lang) ==
    IF \E i \in 1..Len(d) : d[i].lang = lang
    THEN d[CHOOSE i \in 1..Len(d) : d[i].lang = lang].value
    ELSE NoneText

RECURSIVE ml_collect(_, _)
ml_collect(entry_list, d) ==
    IF entry_list = << >> THEN d
    ELSE ml_collect(Tail(entry_list),
            ml_put(d, Get(Head(entry_list), "lang", "unknown"),
                      Get(Head(entry_list), "value", NoneText)))

extract_multilang(entry_list) == ml_collect(entry_list, << >>)

\* ------------------------------------------------------------------ numbers
\* float(text) for the literals [ws][sign]digits[.digits][ws]: ok is FALSE
\* where float raises ValueError, else n / 10^e is the value, in lowest
\* terms of e
digit_value(c) ==
    CASE c = "0" -> 0 [] c = "1" -> 1 [] c = "2" -> 2 [] c = "3" -> 3
      [] c = "4" -> 4 [] c = "5" -> 5 [] c = "6" -> 6 [] c = "7" -> 7
      [] c = "8" -> 8 [] OTHER -> 9

RECURSIVE digits_value(_, _)
digits_value(t, acc) ==
    IF t = << >> THEN acc ELSE digits_value(Tail(t), 10 * acc + digit_value(Head(t)))

RECURSIVE lowest_terms(_, _)
lowest_terms(n, e) ==
    IF e > 0 /\ n % 10 = 0 THEN lowest_terms(n \div 10, e - 1) ELSE [n |-> n, e |-> e]

\* the digits before and after the point
float_digits(negative, int_part, frac_part) ==
    LET all_digits == int_part \o frac_part
        magnitude == lowest_terms(digits_value(all_digits, 0), Len(frac_part))
    IN  IF all_digits = << >> \/ \E i \in 1..Len(all_digits) : all_digits[i] \notin Digits
        THEN [ok |-> FALSE]
        ELSE [ok |-> TRUE,
              n |-> IF negative THEN 0 - magnitude.n ELSE magnitude.n,
              e |-> magnitude.e]

\* the literal after its sign, split at its point
float_unsigned(negative, body, dots) ==
    IF Cardinality(dots) > 1 THEN [ok |-> FALSE]
    ELSE IF dots = {} THEN float_digits(negative, body, << >>)
    ELSE float_digits(negative, SubSeq(body, 1, (CHOOSE i \in dots : TRUE) - 1),
                      SubSeq(body, (CHOOSE i \in dots : TRUE) + 1, Len(body)))

float_signed(negative, body) ==
    float_unsigned(negative, body, { i \in 1..Len(body) : body[i] = "." })

float_stripped(s) ==
    float_signed(s # << >> /\ Head(s) = "-",
                 IF s # << >> /\ Head(s) \in {"+", "-"} THEN Tail(s) ELSE s)

python_float(text) == float_stripped(str_strip(text))

\* ---------------------------------------------------------- Document Parser
\* A JSON string in a position that may also hold an object (the value of an
\* `other.anies` entry) is the record [str |-> text]; isinstance(v, dict) is
\* the absence of that key on a value that is present.
NoValue == [none |-> TRUE]
NoneFloat == [none |-> TRUE]
is_str(v) == Has(v, "str")
is_dict(v) == ~Has(v, "str") /\ ~Has(v, "none")

\* e["shortDescription"][0]["value"] for the entries with a non-empty
\* shortDescription: KeyError when the first description has no value
first_short_descriptions(entries) ==
    LET kept == SelectSeq(entries, LAMBDA e : Get(e, "shortDescription", << >>) # << >>)
    IN  [raised |-> \E i \in 1..Len(kept) : ~Has(kept[i].shortDescription[1], "value"),
         values |-> list([i \in 1..Len(kept) |->
                        Get(kept[i].shortDescription[1], "value", None)])]

\* lines 162-165
parse_reviews(mv) ==
    LET review == Get(Get(mv, "validation", EmptyDict), "review", << >>)
        per == list([i \in 1..Len(review) |->
                  first_short_descriptions(
                      Get(review[i], "referenceToNameOfReviewerAndInstitution", << >>))])
    IN  [raised |-> \E i \in 1..Len(per) : per[i].raised,
         reviews |-> list([i \in 1..Len(per) |-> [reviewers |-> per[i].values]])]

\* lines 167-171
parse_compliances(mv) ==
    LET compliance == Get(Get(mv, "complianceDeclarations", EmptyDict), "compliance", << >>)
    IN  list([i \in 1..Len(compliance) |->
            [system |-> extract_multilang(
                Get(Get(compliance[i], "referenceToComplianceSystem", EmptyDict),
                    "shortDescription", << >>))]])

\* lines 188-196
parse_classifications(dsi) ==
    LET classification ==
            Get(Get(dsi, "classificationInformation", EmptyDict), "classification", << >>)
        of(c) == LET class == Get(c, "class", << >>)
                 IN  list([j \in 1..Len(class) |->
                        [name |-> Get(c, "name", NoneText),
                         level |-> Get(class[j], "level", NoLevel),
                         classId |-> Get(class[j], "classId", ""),
                         classification |-> Get(class[j], "value", NoneText)]])
    IN  Concat(list([i \in 1..Len(classification) |-> of(classification[i])]))

\* lines 204-212 and 247-255: the unit of an exchange or LCIA result
RECURSIVE parse_unit(_, _)
parse_unit(anies, unit) ==
    IF anies = << >> THEN unit
    ELSE LET any == Head(anies)
             unit_value == Get(any, "value", NoValue)
             descs == SelectSeq(Get(unit_value, "shortDescription", << >>),
                                LAMBDA desc : Has(desc, "value"))
         IN  IF /\ Get(any, "name", None) = "referenceToUnitGroupDataSet"
                /\ is_dict(unit_value) /\ Has(unit_value, "shortDescription")
                /\ descs # << >>
             THEN parse_unit(Tail(anies), descs[1].value)
             ELSE parse_unit(Tail(anies), unit)

\* dict assignment module_amounts[module] = entry on an insertion-ordered dict
amounts_put(d, entry) ==
    IF \E i \in 1..Len(d) : d[i].module = entry.module
    THEN list([i \in 1..Len(d) |-> IF d[i].module = entry.module THEN entry ELSE d[i]])
    ELSE Append(d, entry)

\* a faulty variant of the amount: an empty value counts as zero
parse_amount_empty_zero(x) ==
    IF ~Has(x, "value") THEN NoneFloat
    ELSE IF is_str(x.value) /\ x.value.str = << >> THEN [n |-> 0, e |-> 0]
    ELSE IF is_str(x.value) /\ python_float(x.value.str).ok
         THEN [n |-> python_float(x.value.str).n, e |-> python_float(x.value.str).e]
    ELSE NoneFloat
\* lines 216-223 and 259-266: the amount of one module entry
parse_amount(x) ==
    LET value == Get(x, "value", NoValue)
        parsed == python_float(value.str)
    IN  IF ~Has(x, "value") \/ (is_str(value) /\ value.str = << >>) THEN NoneFloat
        ELSE IF is_str(value) /\ parsed.ok THEN [n |-> parsed.n, e |-> parsed.e]
        ELSE NoneFloat

\* lines 213-228 and 256-271
RECURSIVE parse_module_amounts(_, _)
parse_module_amounts(anies, module_amounts) ==
    IF anies = << >> THEN module_amounts
    ELSE LET x == Head(anies)
         IN  IF Has(x, "module")
             THEN parse_module_amounts(Tail(anies),
                     amounts_put(module_amounts,
                         [module |-> x.module,
                          amount |-> parse_amount(x),
                          scenario |-> Get(x, "scenario", "")]))
             ELSE parse_module_amounts(Tail(anies), module_amounts)

\* lines 198-240
parse_exchanges(data, order) ==
    LET exchange == Get(Get(data, "exchanges", EmptyDict), "exchange", << >>)
        of(ex) ==
            LET flow == extract_multilang(
                            Get(Get(ex, "referenceToFlowDataSet", EmptyDict),
                                "shortDescription", << >>))
                indicator == get_indicator_key(flow, order)
                anies == Get(Get(ex, "other", EmptyDict), "anies", << >>)
            IN  [raised |-> indicator.raised,
                 data_set_internal_id |-> Get(ex, "dataSetInternalID", NoneInt),
                 flow |-> flow,
                 indicator_key |-> indicator.key,
                 direction |-> Get(ex, "exchange direction", None),
                 meanAmount |-> Get(ex, "meanAmount", NoneText),
                 unit |-> parse_unit(anies, None),
                 module_amounts |-> parse_module_amounts(anies, << >>)]
        all == list([i \in 1..Len(exchange) |-> of(exchange[i])])
    IN  [raised |-> \E i \in 1..Len(all) : all[i].raised, exchanges |-> all]

\* lines 242-279
parse_lcia_results(data, order) ==
    LET LCIAResult == Get(Get(data, "LCIAResults", EmptyDict), "LCIAResult", << >>)
        of(lcia) ==
            LET method == extract_multilang(
                              Get(Get(lcia, "referenceToLCIAMethodDataSet", EmptyDict),
                                  "shortDescription", << >>))
                indicator == get_indicator_key(method, order)
                anies == Get(Get(lcia, "other", EmptyDict), "anies", << >>)
            IN  [raised |-> indicator.raised,
                 method |-> method,
                 indicator_key |-> indicator.key,
                 meanAmount |-> Get(lcia, "meanAmount", NoneText),
                 unit |-> parse_unit(anies, None),
                 module_amounts |-> parse_module_amounts(anies, << >>)]
        all == list([i \in 1..Len(LCIAResult) |-> of(LCIAResult[i])])
    IN  [raised |-> \E i \in 1..Len(all) : all[i].raised, lcia_results |-> all]

\* next((n["value"] for n in names if n.get("lang") == lang), None):
\* KeyError when the first entry of that language has no value
name_in(names, lang) ==
    LET of_lang == SelectSeq(names, LAMBDA n : Get(n, "lang", None) = lang)
    IN  [raised |-> of_lang # << >> /\ ~Has(of_lang[1], "value"),
         value |-> IF of_lang = << >> THEN NoneText
                   ELSE Get(of_lang[1], "value", NoneText)]

\* lines 288-296
parse_flow_property(prop) ==
    LET name_en == name_in(Get(prop, "name", << >>), "en")
        name_de == name_in(Get(prop, "name", << >>), "de")
    IN  [raised |-> name_en.raised \/ name_de.raised,
         name_en |-> name_en.value,
         name_de |-> name_de.value,
         mean_value |-> Get(prop, "meanValue", NoneText),
         unit |-> Get(prop, "referenceUnit", None),
         is_reference |-> Get(prop, "referenceFlowProperty", FALSE)]

\* lines 298-302: a dict keyed by mp['name']; KeyError without name, value
\* or unit
material_put(d, entry) ==
    IF \E i \in 1..Len(d) : d[i].property_id = entry.property_id
    THEN list([i \in 1..Len(d) |->
            IF d[i].property_id = entry.property_id THEN entry ELSE d[i]])
    ELSE Append(d, entry)

RECURSIVE parse_material_properties(_, _)
parse_material_properties(mat_props, d) ==
    IF mat_props = << >> THEN [raised |-> FALSE, material_properties |-> d]
    ELSE LET mp == Head(mat_props)
         IN  IF ~(Has(mp, "name") /\ Has(mp, "value") /\ Has(mp, "unit"))
             THEN [raised |-> TRUE, material_properties |-> d]
             ELSE parse_material_properties(Tail(mat_props),
                     material_put(d, [property_id |-> mp.name,
                                      value |-> mp.value,
                                      units |-> mp.unit,
                                      description |-> Get(mp, "unitDescription", None)]))

\* line 281: the declared reference flow; raised where the subscripts raise
reference_flow_declaration(data) ==
    LET pi == Get(data, "processInformation", EmptyDict)
        qr == Get(pi, "quantitativeReference", EmptyDict)
        ids == Get(qr, "referenceToReferenceFlow", << >>)
    IN  [raised |-> ids = << >>,
         reference_flow_id |-> IF ids = << >> THEN NoneInt ELSE ids[1]]

\* lines 282-304: one entry for every exchange whose dataSetInternalID is
\* the declared one
parse_reference_flow(data, reference_flow_id) ==
    LET exchange == Get(Get(data, "exchanges", EmptyDict), "exchange", << >>)
        matching == SelectSeq(exchange,
                        LAMBDA ex : Get(ex, "dataSetInternalID", NoneInt) = reference_flow_id)
        of(ex) ==
            LET flow_props == Get(ex, "flowProperties", << >>)
                ref_flow_props == list([i \in 1..Len(flow_props) |->
                                      parse_flow_property(flow_props[i])])
                mat == parse_material_properties(Get(ex, "materialProperties", << >>), << >>)
            IN  [raised |-> mat.raised
                            \/ \E i \in 1..Len(ref_flow_props) : ref_flow_props[i].raised,
                 material_properties |-> mat.material_properties,
                 flow_properties |-> ref_flow_props]
        all == list([i \in 1..Len(matching) |-> of(matching[i])])
    IN  [raised |-> \E i \in 1..Len(all) : all[i].raised, reference_flow |-> all]

\* str.lower() == "oekobau.dat"
Oekobau == << "o","e","k","o","b","a","u",".","d","a","t" >>
\* a faulty variant of the comparison: the case of the name counts
is_oekobau_exact(name) == name = Oekobau
is_oekobau(name) == str_lower(name) = Oekobau

\* a faulty variant of the loop: a category that is set is not set again
RECURSIVE project_classes_first(_, _, _)
project_classes_first(classes, translations, cat) ==
    IF classes = << >> THEN cat
    ELSE LET c == Head(classes)
             translated == translate_text(c.classification, translations, cat.not_found)
             after == [cat EXCEPT !.not_found = translated.not_found]
         IN  IF c.level = NoLevel THEN [cat EXCEPT !.raised = TRUE]
             ELSE project_classes_first(Tail(classes), translations,
                    IF c.level = 0 /\ cat.category_level_1 = NoneText
                    THEN [after EXCEPT !.category_level_1 = translated.text]
                    ELSE IF c.level = 1 /\ cat.category_level_2 = NoneText
                    THEN [after EXCEPT !.category_level_2 = translated.text]
                    ELSE IF c.level = 2 /\ cat.category_level_3 = NoneText
                    THEN [after EXCEPT !.category_level_3 = translated.text]
                    ELSE after)
\* lines 314-324: the loop over the oekobau.dat classes; cat holds the three
\* category levels, the not_found list and whether int(level) raised
RECURSIVE project_classes(_, _, _)
project_classes(classes, translations, cat) ==
    IF classes = << >> THEN cat
    ELSE LET c == Head(classes)
             level == c.level
             translated == translate_text(c.classification, translations, cat.not_found)
             after == [cat EXCEPT !.not_found = translated.not_found]
         IN  IF level = NoLevel THEN [cat EXCEPT !.raised = TRUE]
             ELSE project_classes(Tail(classes), translations,
                    IF level = 0 THEN [after EXCEPT !.category_level_1 = translated.text]
                    ELSE IF level = 1 THEN [after EXCEPT !.category_level_2 = translated.text]
                    ELSE IF level = 2 THEN [after EXCEPT !.category_level_3 = translated.text]
                    ELSE after)

\* lines 311-313: the loop over all classifications; None.lower() raises
RECURSIVE project_categories(_, _, _, _)
project_categories(rest, classifications, translations, cat) ==
    IF rest = << >> \/ cat.raised THEN cat
    ELSE IF Head(rest).name = NoneText THEN [cat EXCEPT !.raised = TRUE]
    ELSE IF is_oekobau(Head(rest).name)
         THEN IF \E i \in 1..Len(classifications) : classifications[i].name = NoneText
              THEN [cat EXCEPT !.raised = TRUE]
              ELSE project_categories(Tail(rest), classifications, translations,
                      project_classes(
                          SelectSeq(classifications, LAMBDA c : is_oekobau(c.name)),
                          translations, cat))
    ELSE project_categories(Tail(rest), classifications, translations, cat)

\* lines 306-324
parse_categories(classifications, translations, not_found) ==
    project_categories(classifications, classifications, translations,
        [raised |-> FALSE, not_found |-> not_found,
         category_level_1 |-> NoneText, category_level_2 |-> NoneText,
         category_level_3 |-> NoneText])

\* list.get(key, [{}])[0]: IndexError on a list that is present and empty
first_or_empty_raises(d, key) == Has(d, key) /\ d[key] = << >>

\* parse_json on a loaded document: [raised, item, not_found]. The item
\* holds the fields of the normalized record that decide what is stored
\* where: of the scalar Product columns it keeps the identity, the name and
\* the three categories.
parse_json(data, translations, not_found, order) ==
    LET pi == Get(data, "processInformation", EmptyDict)
        dsi == Get(pi, "dataSetInformation", EmptyDict)
        admin == Get(data, "administrativeInformation", EmptyDict)
        mv == Get(data, "modellingAndValidation", EmptyDict)
        \* lines 123-125
        uuid == Get(dsi, "UUID", "")
        version == Get(Get(admin, "publicationAndOwnership", EmptyDict), "dataSetVersion", "")
        process_id == << uuid, version >>
        \* line 127
        name == extract_multilang(Get(Get(dsi, "name", EmptyDict), "baseName", << >>))
        \* lines 148-150
        method_anies == Get(Get(Get(mv, "LCIMethodAndAllocation", EmptyDict),
                                "other", EmptyDict), "anies", << >>)
        sub_types == SelectSeq(method_anies, LAMBDA el : Get(el, "name", None) = "subType")
        \* lines 152-156
        sources == first_short_descriptions(
                       Get(Get(mv, "dataSourcesTreatmentAndRepresentativeness", EmptyDict),
                           "referenceToDataSource", << >>))
        reviews == parse_reviews(mv)
        compliances == parse_compliances(mv)
        classifications == parse_classifications(dsi)
        exchanges == parse_exchanges(data, order)
        lcia_results == parse_lcia_results(data, order)
        declared == reference_flow_declaration(data)
        reference_flow == parse_reference_flow(data, declared.reference_flow_id)
        raised_before_categories ==
            \/ ~Has(data, "processInformation")                        \* line 127
            \/ ~Has(pi, "dataSetInformation")                          \* line 127
            \/ ~Has(data, "modellingAndValidation")                    \* line 148
            \/ (sub_types # << >> /\ ~Has(sub_types[1], "value"))      \* line 150
            \/ sources.raised                                          \* line 153
            \/ reviews.raised                                          \* line 164
            \/ first_or_empty_raises(Get(admin, "dataGenerator", EmptyDict),
                   "referenceToPersonOrEntityGeneratingTheDataSet")    \* line 176
            \/ first_or_empty_raises(Get(admin, "dataEntryBy", EmptyDict),
                   "referenceToDataSetFormat")                         \* line 177
            \/ exchanges.raised                                        \* line 201
            \/ lcia_results.raised                                     \* line 245
            \/ declared.raised                                         \* line 281
            \/ reference_flow.raised                                   \* lines 290-302
        categories == parse_categories(classifications, translations, not_found)
    IN  IF raised_before_categories
        THEN [raised |-> TRUE, not_found |-> not_found]
        ELSE IF categories.raised
        THEN [raised |-> TRUE, not_found |-> categories.not_found]
        ELSE [raised |-> FALSE,
              not_found |-> categories.not_found,
              item |-> [process_id |-> process_id,
                        uuid |-> uuid,
                        version |-> version,
                        name |-> name,
                        category_level_1 |-> categories.category_level_1,
                        category_level_2 |-> categories.category_level_2,
                        category_level_3 |-> categories.category_level_3,
                        classifications |-> classifications,
                        reviews |-> reviews.reviews,
                        compliances |-> compliances,
                        exchanges |-> exchanges.exchanges,
                        lcia_results |-> lcia_results.lcia_results,
                        reference_flow |-> reference_flow.reference_flow]]

\* ---------------------------------------------------------------- database
\* A table is the sequence of its rows in insertion order. The serial
\* primary keys that nothing refers to (module_amount_id, review_id, ...)
\* are left out of the rows; a row's place in its table identifies it.
Tables == { "datastocks", "products", "classifications", "exchanges",
            "exchange_moduleamounts", "lcia_results", "lcia_moduleamounts",
            "reviews", "compliances", "flow_properties", "material_properties" }
ChildTables == { "classifications", "exchanges", "lcia_results", "reviews",
                 "compliances", "flow_properties", "material_properties" }
EmptyDatabase == [t \in Tables |-> << >>]

\* the sequences behind the SERIAL columns that are referred to; nextval is
\* not undone by a rollback
Serials == { "datastocks", "exchanges", "lcia_results" }
InitialSerial == [t \in Serials |-> 1]

\* a value sent to a REAL column: a number as it is, text by its cast, which
\* fails on text that is no number
to_real(text) ==
    LET parsed == python_float(text)
    IN  IF text = NoneText THEN [ok |-> TRUE, value |-> NoneFloat]
        ELSE IF parsed.ok THEN [ok |-> TRUE, value |-> [n |-> parsed.n, e |-> parsed.e]]
        ELSE [ok |-> FALSE]

\* convert_to_float
convert_to_float(val) ==
    LET parsed == python_float(val)
    IN  IF parsed.ok THEN [n |-> parsed.n, e |-> parsed.e] ELSE NoneFloat

\* SELECT 1 FROM products WHERE process_id = %s
product_exists(t, process_id) ==
    \E i \in 1..Len(t.products) : t.products[i].process_id = process_id

\* a faulty variant of the SELECT: the newest row, whatever its uuid
datastock_lookup_newest(t, uuid) ==
    IF t.datastocks = << >> THEN NoneInt
    ELSE t.datastocks[Len(t.datastocks)].datastock_id
\* a faulty variant of the SELECT: the WHERE clause is missing
datastock_lookup_any(t, uuid) ==
    IF t.datastocks = << >> THEN NoneInt ELSE t.datastocks[1].datastock_id
\* SELECT datastock_id FROM DataStocks WHERE uuid = %s
datastock_lookup(t, uuid) ==
    LET found == SelectSeq(t.datastocks, LAMBDA r : r.uuid = uuid)
    IN  IF found = << >> THEN NoneInt ELSE found[1].datastock_id

\* a faulty variant of the rollback: the open transaction stays as it is
rollback_nothing(committed, t) == t
\* conn.rollback(), lines 404 and 616: the transaction's view t goes back to
\* the committed tables
rollback(committed, t) == committed

\* One INSERT statement on the transaction's view t of the tables:
\* [ok, t, serial, id]. ok is FALSE where the server raises: a duplicate
\* key, a broken foreign key, text that is no number for a REAL column.
\* parent is the id RETURNING gave for the last exchange or LCIA result.
execute(t, next_id, stmt, parent) ==
    LET table == stmt.table
        row == stmt.row
        fail == [ok |-> FALSE, t |-> t, serial |-> next_id, id |-> parent]
        done(r, s, id) ==
            [ok |-> TRUE, t |-> [t EXCEPT ![table] = Append(@, r)], serial |-> s, id |-> id]
        taken == [next_id EXCEPT ![table] = @ + 1]
    IN  CASE table = "datastocks" ->
               IF \E i \in 1..Len(t.datastocks) : t.datastocks[i].uuid = row.uuid
               THEN [fail EXCEPT !.serial = taken]
               ELSE done([datastock_id |-> next_id[table]] @@ row, taken, next_id[table])
          [] table = "products" ->
               IF \/ product_exists(t, row.process_id)
                  \/ ~\E i \in 1..Len(t.datastocks) :
                         t.datastocks[i].datastock_id = row.datastock_id
               THEN fail
               ELSE done(row, next_id, parent)
          [] table \in { "exchanges", "lcia_results" } ->
               IF ~to_real(row.meanAmount).ok \/ ~product_exists(t, row.process_id)
               THEN fail
               ELSE done([id |-> next_id[table]] @@
                         [row EXCEPT !.meanAmount = to_real(@).value],
                         taken, next_id[table])
          [] table \in { "exchange_moduleamounts", "lcia_moduleamounts" } ->
               done([parent_id |-> parent] @@ row, next_id, parent)
          [] OTHER ->
               IF ~product_exists(t, row.process_id) THEN fail
               ELSE done(row, next_id, parent)

\* ------------------------------------------------------ Persistence Writer
\* dict.get('de') / .get('en') of a multilingual map
de(m) == ml_get(m, "de")
en(m) == ml_get(m, "en")

\* a faulty variant of the skip: the classification rows go in once more
store_existing_again(t, epd, stock_id) ==
    [t EXCEPT !.classifications =
        @ \o SelectSeq(@, LAMBDA r : r.process_id = epd.process_id)]
\* a faulty variant of the skip: the Product row moves to the datastock of
\* the folder at hand
store_existing_update(t, epd, stock_id) ==
    [t EXCEPT !.products =
        list([i \in 1..Len(@) |->
            IF @[i].process_id = epd.process_id
            THEN [@[i] EXCEPT !.datastock_id = stock_id] ELSE @[i]])]
\* line 417-419: the record is there already; the tables after the skip
store_existing(t, epd, stock_id) == t

\* lines 422-571: the INSERT statements of one record, in the order the
\* code issues them
exchange_statements(process_id, exchange) ==
    << [table |-> "exchanges",
        row |-> [process_id |-> process_id,
                 flow_de |-> de(exchange.flow), flow_en |-> en(exchange.flow),
                 indicator_key |-> exchange.indicator_key,
                 direction |-> exchange.direction,
                 meanAmount |-> exchange.meanAmount,
                 unit |-> exchange.unit]] >>
    \o list([i \in 1..Len(exchange.module_amounts) |->
          [table |-> "exchange_moduleamounts",
           row |-> [module |-> exchange.module_amounts[i].module,
                    scenario |-> exchange.module_amounts[i].scenario,
                    amount |-> exchange.module_amounts[i].amount]]])

lcia_statements(process_id, lcia) ==
    << [table |-> "lcia_results",
        row |-> [process_id |-> process_id,
                 method_de |-> de(lcia.method), method_en |-> en(lcia.method),
                 indicator_key |-> lcia.indicator_key,
                 meanAmount |-> lcia.meanAmount,
                 unit |-> lcia.unit]] >>
    \o list([i \in 1..Len(lcia.module_amounts) |->
          [table |-> "lcia_moduleamounts",
           row |-> [module |-> lcia.module_amounts[i].module,
                    scenario |-> lcia.module_amounts[i].scenario,
                    amount |-> lcia.module_amounts[i].amount]]])

reference_flow_statements(process_id, refFlow) ==
    list([i \in 1..Len(refFlow.flow_properties) |->
        [table |-> "flow_properties",
         row |-> [process_id |-> process_id,
                  name_en |-> refFlow.flow_properties[i].name_en,
                  name_de |-> refFlow.flow_properties[i].name_de,
                  meanamount |-> refFlow.flow_properties[i].mean_value,
                  unit |-> refFlow.flow_properties[i].unit,
                  is_reference |-> refFlow.flow_properties[i].is_reference]]])
    \o list([i \in 1..Len(refFlow.material_properties) |->
        [table |-> "material_properties",
         row |-> [process_id |-> process_id,
                  property_id |-> refFlow.material_properties[i].property_id,
                  property_name |-> None,
                  value |-> convert_to_float(refFlow.material_properties[i].value),
                  units |-> refFlow.material_properties[i].units,
                  description |-> refFlow.material_properties[i].description]]])

store_statements(epd, stock_id) ==
    << [table |-> "products",
        row |-> [process_id |-> epd.process_id, uuid |-> epd.uuid,
                 version |-> epd.version,
                 name_de |-> de(epd.name), name_en |-> en(epd.name),
                 category_level_1 |-> epd.category_level_1,
                 category_level_2 |-> epd.category_level_2,
                 category_level_3 |-> epd.category_level_3,
                 datastock_id |-> stock_id]] >>
    \o list([i \in 1..Len(epd.classifications) |->
          [table |-> "classifications",
           row |-> [process_id |-> epd.process_id,
                    name |-> epd.classifications[i].name,
                    level |-> epd.classifications[i].level,
                    classId |-> epd.classifications[i].classId,
                    classification |-> epd.classifications[i].classification]]])
    \o Concat(list([i \in 1..Len(epd.exchanges) |->
                  exchange_statements(epd.process_id, epd.exchanges[i])]))
    \o Concat(list([i \in 1..Len(epd.lcia_results) |->
                  lcia_statements(epd.process_id, epd.lcia_results[i])]))
    \o Concat(list([i \in 1..Len(epd.reviews) |->
                  list([j \in 1..Len(epd.reviews[i].reviewers) |->
                      [table |-> "reviews",
                       row |-> [process_id |-> epd.process_id,
                                reviewer |-> epd.reviews[i].reviewers[j]]]])]))
    \o list([i \in 1..Len(epd.compliances) |->
          [table |-> "compliances",
           row |-> [process_id |-> epd.process_id,
                    system_de |-> de(epd.compliances[i].system),
                    system_en |-> en(epd.compliances[i].system)]]])
    \o Concat(list([i \in 1..Len(epd.reference_flow) |->
                  reference_flow_statements(epd.process_id, epd.reference_flow[i])]))

\* ---------------------------------------------------------------- documents
\* The documents of the data folders. Wood is well formed and fills every
\* table; WoodRevised has Wood's process_id and other content; NoUUID has no
\* UUID field; BadAmount has an LCIA result whose meanAmount is no number;
\* NoDataSetInformation has no dataSetInformation object.
WoodExchanges ==
    [exchange |->
       << [dataSetInternalID |-> 0,
           referenceToFlowDataSet |->
               [shortDescription |-> << [lang |-> "de", value |-> << "H","o","l","z" >>] >>],
           meanAmount |-> << "1",".","0" >>,
           flowProperties |->
               << [name |-> << [lang |-> "en", value |-> << "M","a","s","s" >>] >>,
                   meanValue |-> << "1",".","0" >>, referenceUnit |-> "kg",
                   referenceFlowProperty |-> TRUE] >>,
           materialProperties |->
               << [name |-> "density", value |-> << "5","0","0" >>, unit |-> "kg/m3"] >>],
          [dataSetInternalID |-> 1,
           referenceToFlowDataSet |->
               [shortDescription |-> << [lang |-> "en", value |-> << "U","s","e"," ","o","f"," ","P","E","R","E" >>] >>],
           meanAmount |-> << "2",".","5" >>,
           other |->
               [anies |->
                  << [name |-> "referenceToUnitGroupDataSet",
                      value |-> [shortDescription |-> << [value |-> "MJ"] >>]],
                     [module |-> "A1", value |-> [str |-> << "1",".","2","3" >>]],
                     [module |-> "C3", scenario |-> "S1"] >>]]
            @@ ("exchange direction" :> "INPUT") >>]

WoodLCIAResults ==
    [LCIAResult |->
       << [referenceToLCIAMethodDataSet |->
               [shortDescription |-> << [lang |-> "en", value |-> << "G","W","P","-","t","o","t","a","l" >>] >>],
           meanAmount |-> << "7" >>,
           other |-> [anies |-> << [module |-> "A1", value |-> [str |-> << "4",".","5" >>]] >>]] >>]

WoodValidation ==
    [validation |->
        [review |->
           << [referenceToNameOfReviewerAndInstitution |->
                  << [shortDescription |-> << [value |-> "R1"] >>] >>] >>],
     complianceDeclarations |->
        [compliance |->
           << [referenceToComplianceSystem |->
                  [shortDescription |-> << [lang |-> "en", value |-> << "E","N"," ","1","5","8","0","4" >>] >>]] >>]]

Wood ==
    [processInformation |->
        [dataSetInformation |->
            [UUID |-> "u1",
             name |-> [baseName |-> << [lang |-> "de", value |-> << "H","o","l","z" >>],
                                       [lang |-> "en", value |-> << "W","o","o","d" >>] >>],
             classificationInformation |->
                [classification |->
                   << [name |-> << "O","E","K","O","B","A","U",".","D","A","T" >>,
                       class |-> << [level |-> 0, classId |-> "3",
                                     value |-> << "H","o","l","z" >>] >>] >>]],
         quantitativeReference |-> [referenceToReferenceFlow |-> << 0 >>]],
     administrativeInformation |-> [publicationAndOwnership |-> [dataSetVersion |-> "v1"]],
     modellingAndValidation |-> WoodValidation,
     exchanges |-> WoodExchanges,
     LCIAResults |-> WoodLCIAResults]

WoodRevised ==
    [Wood EXCEPT !.processInformation.dataSetInformation.name =
                     [baseName |-> << [lang |-> "en", value |-> << "T","i","m","b","e","r" >>] >>],
                 !.LCIAResults = [LCIAResult |-> << >>]]

PlainExchanges == [exchange |-> << [dataSetInternalID |-> 0, meanAmount |-> << "1" >>] >>]

NoUUID ==
    [processInformation |->
        [dataSetInformation |->
            [name |-> [baseName |-> << [lang |-> "en", value |-> << "G","l","a","s","s" >>] >>]],
         quantitativeReference |-> [referenceToReferenceFlow |-> << 0 >>]],
     administrativeInformation |-> [publicationAndOwnership |-> [dataSetVersion |-> "v1"]],
     modellingAndValidation |-> EmptyDict,
     exchanges |-> PlainExchanges]

BadAmount ==
    [processInformation |->
        [dataSetInformation |->
            [UUID |-> "u3",
             classificationInformation |->
                [classification |->
                   << [name |-> << "o","e","k","o","b","a","u",".","d","a","t" >>,
                       class |-> << [level |-> 1, classId |-> "4",
                                     value |-> << "Z","i","e","g","e","l" >>] >>] >>]],
         quantitativeReference |-> [referenceToReferenceFlow |-> << 0 >>]],
     administrativeInformation |-> [publicationAndOwnership |-> [dataSetVersion |-> "v1"]],
     modellingAndValidation |-> EmptyDict,
     exchanges |-> PlainExchanges,
     LCIAResults |->
        [LCIAResult |->
           << [meanAmount |-> << "n","/","a" >>,
               other |-> [anies |-> << [module |-> "A1", value |-> [str |-> << "2" >>]] >>]] >>]]

NoDataSetInformation ==
    [processInformation |->
        [quantitativeReference |-> [referenceToReferenceFlow |-> << 0 >>]],
     administrativeInformation |-> [publicationAndOwnership |-> [dataSetVersion |-> "v1"]],
     modellingAndValidation |-> EmptyDict,
     exchanges |-> PlainExchanges]

\* the JSON files that a folder may hold, by name, and json.load of each
FileNames == { "wood.json", "wood_revised.json", "no_uuid.json", "bad_amount.json",
              "no_data_set_information.json" }
json_load(file_name) ==
    CASE file_name = "wood.json" -> Wood
      [] file_name = "wood_revised.json" -> WoodRevised
      [] file_name = "no_uuid.json" -> NoUUID
      [] file_name = "bad_amount.json" -> BadAmount
      [] OTHER -> NoDataSetInformation

\* ------------------------------------------------------------ data folders
\* A folder name is the part of it that the pattern of
\* extract_datastock_info reads: whether the pattern matches, and the two
\* groups.
FolderNames ==
    << [matches |-> TRUE, name |-> "Default", uuid |-> "1111-2222"],
       [matches |-> TRUE, name |-> "Other", uuid |-> "1111-2222"],
       [matches |-> TRUE, name |-> "Extra", uuid |-> "3333-4444"],
       [matches |-> FALSE, name |-> "", uuid |-> ""] >>

\* extract_datastock_info
extract_datastock_info(folder_name) ==
    IF folder_name.matches
    THEN [datastock_name |-> folder_name.name, datastock_uuid |-> folder_name.uuid]
    ELSE [datastock_name |-> None, datastock_uuid |-> None]

\* The listings of the data directory: up to MaxFolders folders of
\* different names, in the order of FolderNames and with its first name
\* among them, each with up to MaxFiles JSON files. Two files of a folder
\* may hold the same document; a file is identified by its place in the
\* listing. A folder whose name does not match is never listed.
SeqsUpTo(S, n) == UNION { [1..k -> S] : k \in 0..n }
FileListings == SeqsUpTo(FileNames, MaxFiles)
NameListings ==
    { names \in SeqsUpTo(1..Len(FolderNames), MaxFolders) :
        /\ names # << >>
        /\ names[1] = 1
        /\ \A i \in 1..(Len(names) - 1) : names[i] < names[i + 1] }
DataDirs ==
    UNION { { list([i \in 1..Len(names) |->
                 [name |-> FolderNames[names[i]], json_files |-> files[i]]]) :
              files \in { fs \in [1..Len(names) -> FileListings] :
                            \A i \in 1..Len(names) :
                                ~FolderNames[names[i]].matches => fs[i] = << >> } } :
            names \in NameListings }

RECURSIVE total_files(_)
total_files(dir) ==
    IF dir = << >> THEN 0 ELSE Len(Head(dir).json_files) + total_files(Tail(dir))

\* the listings with at most MaxFiles files in all
SmallDataDirs == { dir \in DataDirs : total_files(dir) <= MaxFiles }

\* ---------------------------------------------------------------- the state
VARIABLES
    db,                      \* the committed tables
    tx,                      \* the tables as the connection's transaction sees them
    serial,                  \* the next value of each sequence
    data_dir,                \* the listing of the data directory
    runs,                    \* the number of the current run of the script
    pc,                      \* where the run is
    folder,                  \* index of the folder of store_data's loop
    file,                    \* index of the file of process_datastock_folder's loop
    file_count,              \* process_datastock_folder's file_count
    total_processed,         \* store_data's total_processed
    datastock_id,            \* process_datastock_folder's datastock_id
    item,                    \* the item_data of the file being stored
    pending,                 \* the statements of the record not yet executed
    last_id,                 \* exchange_id or lcia_id of the last RETURNING
    not_found_translations,  \* the global list of that name
    log,                     \* the lines written to the log file, and the kills
    callers,                 \* concurrent callers of get_or_create_datastock
    document,                \* a loaded document handed to parse_json alone
    result                   \* what parse_json made of it

vars == << db, tx, serial, data_dir, runs, pc, folder, file, file_count,
           total_processed, datastock_id, item, pending, last_id,
           not_found_translations, log, callers, document, result >>

NoItem == [none |-> TRUE]

json_files == data_dir[folder].json_files
current_document == json_load(json_files[file])

Init ==
    /\ db = EmptyDatabase
    /\ tx = EmptyDatabase
    /\ serial = InitialSerial
    /\ data_dir \in DataDirs
    /\ runs = 1
    /\ pc = "folder"
    /\ folder = 1
    /\ file = 1
    /\ file_count = 0
    /\ total_processed = 0
    /\ datastock_id = NoneInt
    /\ item = NoItem
    /\ pending = << >>
    /\ last_id = NoneInt
    /\ not_found_translations = << >>
    /\ log = << >>
    /\ callers = << >>
    /\ document = EmptyDict
    /\ result = NoItem

Logged(event) ==
    Append(log, [run |-> runs, folder |-> folder, file |-> file, event |-> event])

\* the loop of process_datastock_folder moves to the next file
NextFile ==
    /\ file' = file + 1
    /\ pc' = "file"
    /\ item' = NoItem
    /\ pending' = << >>
    /\ last_id' = NoneInt

\* a faulty variant of the handlers: the exception leaves the loop over the
\* files of the folder
FileFailedLeavesLoop(event) ==
    /\ log' = Logged(event)
    /\ file' = Len(json_files) + 1
    /\ pc' = "file"
    /\ item' = NoItem
    /\ pending' = << >>
    /\ last_id' = NoneInt
\* the except clauses, lines 613-619: the failure is logged and the loop
\* goes on with the next file
FileFailed(event) ==
    /\ log' = Logged(event)
    /\ NextFile

\* process_datastock_folder returns 0 before it lists the folder
SkipFolder ==
    /\ folder' = folder + 1
    /\ pc' = "folder"
    /\ UNCHANGED << file, file_count, total_processed, datastock_id >>

\* process_datastock_folder, lines 577-593, with get_or_create_datastock up
\* to its INSERT
StartFolder ==
    /\ pc = "folder"
    /\ folder <= Len(data_dir)
    /\ LET info == extract_datastock_info(data_dir[folder].name)
           found == datastock_lookup(tx, info.datastock_uuid)
           inserted == execute(tx, serial,
                          [table |-> "datastocks",
                           row |-> [name |-> info.datastock_name,
                                    uuid |-> info.datastock_uuid]], NoneInt)
       IN  IF info.datastock_name = None \/ info.datastock_uuid = None
           THEN /\ SkipFolder
                /\ UNCHANGED << tx, serial >>
           ELSE IF found # NoneInt
           THEN /\ datastock_id' = found
                /\ pc' = "file"
                /\ file' = 1
                /\ file_count' = 0
                /\ UNCHANGED << tx, serial, folder, total_processed >>
           ELSE IF inserted.ok
           THEN /\ tx' = inserted.t
                /\ serial' = inserted.serial
                /\ datastock_id' = inserted.id
                /\ pc' = "datastock_commit"
                /\ UNCHANGED << folder, file, file_count, total_processed >>
           ELSE /\ tx' = rollback(db, tx)
                /\ serial' = inserted.serial
                /\ SkipFolder
    /\ UNCHANGED << db, data_dir, runs, item, pending, last_id,
                    not_found_translations, log, callers, document, result >>

\* get_or_create_datastock, lines 399-402, and lines 587-595
CommitDatastock ==
    /\ pc = "datastock_commit"
    /\ db' = tx
    /\ pc' = "file"
    /\ file' = 1
    /\ file_count' = 0
    /\ UNCHANGED << tx, serial, data_dir, runs, folder, total_processed, datastock_id,
                    item, pending, last_id, not_found_translations, log, callers, document, result >>

\* lines 597-608 and 617-619: parse_json on the next file of the folder
ParseFile ==
    /\ pc = "file"
    /\ file <= Len(json_files)
    /\ LET parsed == parse_json(current_document, load_translations,
                                not_found_translations, target_indicators)
       IN  /\ not_found_translations' = parsed.not_found
           /\ IF parsed.raised
              THEN FileFailed("parse_failed")
              ELSE /\ item' = parsed.item
                   /\ pc' = "store"
                   /\ UNCHANGED << log, file, pending, last_id >>
    /\ UNCHANGED << db, tx, serial, data_dir, runs, folder, file_count,
                    total_processed, datastock_id, callers, document, result >>

\* store_data_in_db, lines 410-419 (and 573, 611-612 when the product is
\* there already)
CheckExisting ==
    /\ pc = "store"
    /\ IF product_exists(tx, item.process_id)
       THEN /\ tx' = store_existing(tx, item, datastock_id)
            /\ db' = tx'
            /\ file_count' = file_count + 1
            /\ log' = Logged("stored")
            /\ NextFile
       ELSE /\ pending' = store_statements(item, datastock_id)
            /\ pc' = "insert"
            /\ UNCHANGED << db, tx, file, file_count, item, last_id, log >>
    /\ UNCHANGED << serial, data_dir, runs, folder, total_processed, datastock_id,
                    not_found_translations, callers, document, result >>

\* a faulty variant of the connection: autocommit, every INSERT is committed
\* as it is executed
ExecuteInsertAutocommit ==
    /\ pc = "insert"
    /\ pending # << >>
    /\ LET done == execute(tx, serial, Head(pending), last_id)
       IN  /\ serial' = done.serial
           /\ IF done.ok
              THEN /\ tx' = done.t
                   /\ db' = done.t
                   /\ last_id' = done.id
                   /\ pending' = Tail(pending)
                   /\ UNCHANGED << pc, file, item, log >>
              ELSE /\ tx' = db
                   /\ db' = db
                   /\ FileFailed("store_failed")
    /\ UNCHANGED << data_dir, runs, folder, file_count, total_processed,
                    datastock_id, not_found_translations, callers, document, result >>

\* store_data_in_db, one cursor.execute of lines 422-571; when it raises,
\* lines 613-616
ExecuteInsert ==
    /\ pc = "insert"
    /\ pending # << >>
    /\ LET done == execute(tx, serial, Head(pending), last_id)
       IN  /\ serial' = done.serial
           /\ IF done.ok
              THEN /\ tx' = done.t
                   /\ last_id' = done.id
                   /\ pending' = Tail(pending)
                   /\ UNCHANGED << pc, file, item, log >>
              ELSE /\ tx' = rollback(db, tx)
                   /\ FileFailed("store_failed")
    /\ UNCHANGED << db, data_dir, runs, folder, file_count, total_processed,
                    datastock_id, not_found_translations, callers, document, result >>

\* a faulty variant of the commit: the file is stored and not counted
CommitRecordUncounted ==
    /\ pc = "insert"
    /\ pending = << >>
    /\ db' = tx
    /\ file_count' = file_count
    /\ log' = Logged("stored")
    /\ NextFile
    /\ UNCHANGED << tx, serial, data_dir, runs, folder, total_processed,
                    datastock_id, not_found_translations, callers, document, result >>
\* store_data_in_db, line 573, and lines 611-612
CommitRecord ==
    /\ pc = "insert"
    /\ pending = << >>
    /\ db' = tx
    /\ file_count' = file_count + 1
    /\ log' = Logged("stored")
    /\ NextFile
    /\ UNCHANGED << tx, serial, data_dir, runs, folder, total_processed,
                    datastock_id, not_found_translations, callers, document, result >>

\* lines 621-622 and 641-642
FinishFolder ==
    /\ pc = "file"
    /\ file > Len(json_files)
    /\ log' = Append(log, [run |-> runs, folder |-> folder, file |-> 0,
                           event |-> "folder_done",
                           processed |-> file_count, of |-> Len(json_files)])
    /\ total_processed' = total_processed + file_count
    /\ folder' = folder + 1
    /\ pc' = "folder"
    /\ UNCHANGED << db, tx, serial, data_dir, runs, file, file_count, datastock_id,
                    item, pending, last_id, not_found_translations, callers, document, result >>

\* store_data, lines 644-661: the folders are done, the connection is closed
FinishRun ==
    /\ pc = "folder"
    /\ folder > Len(data_dir)
    /\ pc' = "done"
    /\ tx' = db
    /\ UNCHANGED << db, serial, data_dir, runs, folder, file, file_count,
                    total_processed, datastock_id, item, pending, last_id,
                    not_found_translations, log, callers, document, result >>

\* The process is killed: its connection goes and the server drops the
\* open transaction.
Kill ==
    /\ pc \notin { "done", "killed" }
    /\ pc' = "killed"
    /\ tx' = db
    /\ item' = NoItem
    /\ pending' = << >>
    /\ last_id' = NoneInt
    /\ log' = Append(log, [run |-> runs, folder |-> folder, file |-> file,
                           event |-> "killed", at |-> pc, open |-> tx # db])
    /\ UNCHANGED << db, serial, data_dir, runs, folder, file, file_count,
                    total_processed, datastock_id, not_found_translations, callers, document, result >>

\* The script is run again over the same data directory.
Restart ==
    /\ pc \in { "done", "killed" }
    /\ runs < MaxRuns
    /\ runs' = runs + 1
    /\ pc' = "folder"
    /\ folder' = 1
    /\ file' = 1
    /\ file_count' = 0
    /\ total_processed' = 0
    /\ datastock_id' = NoneInt
    /\ not_found_translations' = << >>
    /\ UNCHANGED << db, tx, serial, data_dir, item, pending, last_id, log, callers, document, result >>

Next ==
    \/ StartFolder
    \/ CommitDatastock
    \/ ParseFile
    \/ CheckExisting
    \/ ExecuteInsert
    \/ CommitRecord
    \/ FinishFolder
    \/ FinishRun
    \/ Restart

\* Runs of the script that are left to finish, one after the other.
Spec == Init /\ [][Next]_vars

\* Runs that may be killed at any point and started again.
InitResume ==
    /\ Init
    /\ data_dir \in SmallDataDirs

NextResume == Next \/ Kill

SpecResume == InitResume /\ [][NextResume]_vars

\* ------------------------------------------------ parse_json on its own
\* Documents that have or lack each part parse_json reads: the
\* processInformation and dataSetInformation objects, the UUID, the version,
\* the modellingAndValidation object, the reference-flow declaration, the
\* exchanges and their internal ids, the classification, and the value of
\* a flow description.
ExchangeIds == << << >>, << 0 >>, << 0, 1 >>, << 0, 0 >> >>
ClassificationShapes == { "none", "full", "no_level", "no_name" }
Shapes ==
    [nesting : { "full", "no_dataSetInformation", "no_processInformation" },
     uuid : BOOLEAN,
     version : BOOLEAN,
     validation : BOOLEAN,
     declared : (0 - 1)..1,
     exchanges : 1..Len(ExchangeIds),
     classification : ClassificationShapes,
     flow_value : BOOLEAN]

optional(present, d) == IF present THEN d ELSE EmptyDict

shaped_classification(shape) ==
    optional(shape # "none",
        [classificationInformation |->
            [classification |->
               << optional(shape # "no_name",
                      [name |-> << "O","e","k","o","b","a","u",".","d","a","t" >>])
                  @@ [class |->
                        << optional(shape # "no_level", [level |-> 0])
                           @@ [classId |-> "3", value |-> << "H","o","l","z" >>] >>] >>]])

shaped_exchange(id, flow_value) ==
    [dataSetInternalID |-> id,
     meanAmount |-> << "1" >>,
     referenceToFlowDataSet |->
        [shortDescription |->
           << optional(flow_value, [value |-> << "O","D","P" >>]) @@ [lang |-> "en"] >>]]

shaped_document(shape) ==
    LET dsi == optional(shape.uuid, [UUID |-> "u1"])
               @@ shaped_classification(shape.classification)
        pi == optional(shape.nesting = "full", [dataSetInformation |-> dsi])
              @@ optional(shape.declared >= 0,
                     [quantitativeReference |->
                         [referenceToReferenceFlow |-> << shape.declared >>]])
        ids == ExchangeIds[shape.exchanges]
    IN  optional(shape.nesting # "no_processInformation", [processInformation |-> pi])
        @@ optional(shape.version,
               [administrativeInformation |->
                   [publicationAndOwnership |-> [dataSetVersion |-> "v1"]]])
        @@ optional(shape.validation, [modellingAndValidation |-> EmptyDict])
        @@ optional(ids # << >>,
               [exchanges |->
                   [exchange |-> list([i \in 1..Len(ids) |->
                                     shaped_exchange(ids[i], shape.flow_value)])]])

ShapedDocuments == { shaped_document(shape) : shape \in Shapes }

InitParseDocument ==
    /\ db = EmptyDatabase
    /\ tx = EmptyDatabase
    /\ serial = InitialSerial
    /\ data_dir = << >>
    /\ runs = 1
    /\ pc = "parse"
    /\ folder = 1
    /\ file = 1
    /\ file_count = 0
    /\ total_processed = 0
    /\ datastock_id = NoneInt
    /\ item = NoItem
    /\ pending = << >>
    /\ last_id = NoneInt
    /\ not_found_translations = << >>
    /\ log = << >>
    /\ callers = << >>
    /\ document \in ShapedDocuments
    /\ result = NoItem

\* parse_json(json_path, translations) once the file is loaded
ParseDocument ==
    /\ pc = "parse"
    /\ LET parsed == parse_json(document, load_translations,
                                not_found_translations, target_indicators)
       IN  /\ result' = parsed
           /\ not_found_translations' = parsed.not_found
    /\ pc' = "parsed"
    /\ UNCHANGED << db, tx, serial, data_dir, runs, folder, file, file_count,
                    total_processed, datastock_id, item, pending, last_id, log,
                    callers, document >>

NextParseDocument == ParseDocument

SpecParse == InitParseDocument /\ [][NextParseDocument]_vars

\* ------------------------- get_or_create_datastock from several processes
\* Each caller is a run of the script with its own connection, at its call
\* of get_or_create_datastock. Its SELECT reads the committed rows. Its
\* INSERT waits while another transaction holds an uncommitted row of the
\* same uuid, and raises on a committed one.
Callers == 1..2
CallerFolders == { FolderNames[i] : i \in 1..3 }

InitRace ==
    /\ db = EmptyDatabase
    /\ tx = EmptyDatabase
    /\ serial = InitialSerial
    /\ data_dir = << >>
    /\ runs = 1
    /\ pc = "race"
    /\ folder = 1
    /\ file = 1
    /\ file_count = 0
    /\ total_processed = 0
    /\ datastock_id = NoneInt
    /\ item = NoItem
    /\ pending = << >>
    /\ last_id = NoneInt
    /\ not_found_translations = << >>
    /\ log = << >>
    /\ callers \in [Callers -> { [pc |-> "select", datastock_name |-> f.name,
                                 datastock_uuid |-> f.uuid, held |-> << >>,
                                 datastock_id |-> NoneInt] : f \in CallerFolders }]
    /\ document = EmptyDict
    /\ result = NoItem

RaceUnchanged ==
    UNCHANGED << tx, data_dir, runs, pc, folder, file, file_count, total_processed,
                 datastock_id, item, pending, last_id, not_found_translations, log,
                 document, result >>

\* lines 384-390
CallerSelect(c) ==
    /\ callers[c].pc = "select"
    /\ LET found == datastock_lookup(db, callers[c].datastock_uuid)
       IN  callers' = [callers EXCEPT ![c] =
                          IF found # NoneInt
                          THEN [@ EXCEPT !.pc = "returned", !.datastock_id = found]
                          ELSE [@ EXCEPT !.pc = "insert"]]
    /\ UNCHANGED << db, serial >>
    /\ RaceUnchanged

\* lines 393-398, and lines 403-406 when the INSERT raises
CallerInsert(c) ==
    /\ callers[c].pc = "insert"
    /\ \A other \in Callers \ { c } :
          \A i \in 1..Len(callers[other].held) :
              callers[other].held[i].uuid # callers[c].datastock_uuid
    /\ LET inserted == execute(db, serial,
                          [table |-> "datastocks",
                           row |-> [name |-> callers[c].datastock_name,
                                    uuid |-> callers[c].datastock_uuid]], NoneInt)
       IN  /\ serial' = inserted.serial
           /\ callers' = [callers EXCEPT ![c] =
                             IF inserted.ok
                             THEN [@ EXCEPT !.pc = "commit",
                                            !.held = << inserted.t.datastocks[
                                                         Len(inserted.t.datastocks)] >>,
                                            !.datastock_id = inserted.id]
                             ELSE [@ EXCEPT !.pc = "returned",
                                            !.datastock_id = NoneInt]]
    /\ UNCHANGED db
    /\ RaceUnchanged

\* lines 399-402
CallerCommit(c) ==
    /\ callers[c].pc = "commit"
    /\ db' = [db EXCEPT !.datastocks = @ \o callers[c].held]
    /\ callers' = [callers EXCEPT ![c] = [@ EXCEPT !.pc = "returned", !.held = << >>]]
    /\ UNCHANGED serial
    /\ RaceUnchanged

NextRace == \E c \in Callers : CallerSelect(c) \/ CallerInsert(c) \/ CallerCommit(c)

SpecRace == InitRace /\ [][NextRace]_vars

\* =============================================================== properties
\* What the tables hold of one record, without the serial ids: the Product
\* row with the uuid of its datastock in place of the datastock_id, the
\* child rows, and under every exchange and LCIA result its module amounts.
without(r, key) == [k \in DOMAIN r \ { key } |-> r[k]]
of_process(table, process_id) == SelectSeq(table, LAMBDA r : r.process_id = process_id)
datastock_uuid_of(t, id) ==
    LET rows == SelectSeq(t.datastocks, LAMBDA r : r.datastock_id = id)
    IN  IF rows = << >> THEN None ELSE rows[1].uuid
with_module_amounts(rows, amounts) ==
    list([i \in 1..Len(rows) |->
        [row |-> without(rows[i], "id"),
         module_amounts |->
            LET own == SelectSeq(amounts, LAMBDA m : m.parent_id = rows[i].id)
            IN  [j \in 1..Len(own) |-> without(own[j], "parent_id")]]])
record_content(t, process_id) ==
    [products |->
        LET rows == of_process(t.products, process_id)
        IN  list([i \in 1..Len(rows) |->
                [rows[i] EXCEPT !.datastock_id = datastock_uuid_of(t, @)]]),
     classifications |-> of_process(t.classifications, process_id),
     exchanges |-> with_module_amounts(of_process(t.exchanges, process_id),
                                       t.exchange_moduleamounts),
     lcia_results |-> with_module_amounts(of_process(t.lcia_results, process_id),
                                          t.lcia_moduleamounts),
     reviews |-> of_process(t.reviews, process_id),
     compliances |-> of_process(t.compliances, process_id),
     flow_properties |-> of_process(t.flow_properties, process_id),
     material_properties |-> of_process(t.material_properties, process_id)]
NoContent == record_content(EmptyDatabase, << "", "" >>)

\* the process_ids that some row of the tables carries, and the rows that
\* hang on nothing
process_ids(t) ==
    UNION { { t[table][i].process_id : i \in 1..Len(t[table]) } :
            table \in ChildTables \cup { "products" } }
orphans(t) ==
    \/ \E i \in 1..Len(t.exchange_moduleamounts) :
          ~\E j \in 1..Len(t.exchanges) :
              t.exchanges[j].id = t.exchange_moduleamounts[i].parent_id
    \/ \E i \in 1..Len(t.lcia_moduleamounts) :
          ~\E j \in 1..Len(t.lcia_results) :
              t.lcia_results[j].id = t.lcia_moduleamounts[i].parent_id

\* One store of one file's record, alone, into tables that hold only the
\* datastock of the given uuid: whether parse and store went through, the
\* process_id, and the content stored.
RECURSIVE execute_all(_, _, _, _)
execute_all(t, s, statements, parent) ==
    IF statements = << >> THEN [ok |-> TRUE, t |-> t]
    ELSE LET done == execute(t, s, Head(statements), parent)
         IN  IF done.ok THEN execute_all(done.t, done.serial, Tail(statements), done.id)
             ELSE [ok |-> FALSE, t |-> t]
DatastockUuids == { FolderNames[i].uuid : i \in 1..Len(FolderNames) }
stored_alone(file_name, uuid) ==
    LET parsed == parse_json(json_load(file_name), load_translations, << >>,
                             target_indicators)
        stock == [EmptyDatabase EXCEPT !.datastocks =
                     << [datastock_id |-> 1, name |-> "", uuid |-> uuid] >>]
        stored == execute_all(stock, InitialSerial,
                              store_statements(parsed.item, 1), NoneInt)
    IN  IF parsed.raised
        THEN [parsed |-> FALSE, ok |-> FALSE, process_id |-> << "", "" >>,
              content |-> NoContent]
        ELSE [parsed |-> TRUE, ok |-> stored.ok,
              process_id |-> parsed.item.process_id,
              content |-> IF stored.ok
                          THEN record_content(stored.t, parsed.item.process_id)
                          ELSE NoContent]
StoredAlone ==
    { [file_name |-> file_name, uuid |-> uuid, alone |-> stored_alone(file_name, uuid)] :
        file_name \in FileNames, uuid \in DatastockUuids }

\* the log lines of files that process_datastock_folder took as stored
stored_events == { i \in 1..Len(log) : log[i].event = "stored" }
event_file(i) == data_dir[log[i].folder].json_files[log[i].file]
event_uuid(i) == data_dir[log[i].folder].name.uuid
event_alone(i) ==
    (CHOOSE r \in StoredAlone :
        r.file_name = event_file(i) /\ r.uuid = event_uuid(i)).alone
stored_events_of(process_id) ==
    { i \in stored_events : event_alone(i).parsed /\ event_alone(i).process_id = process_id }

\* C1. Idempotence of import: however often a document is parsed and
\* stored, in one run or in several, the tables hold for its process_id
\* exactly what the first store of it put there: one Product row and one set
\* of child rows.
C1_IdempotentImport ==
    \A process_id \in process_ids(db) :
        /\ stored_events_of(process_id) # {}
        /\ LET first == CHOOSE i \in stored_events_of(process_id) :
                            \A j \in stored_events_of(process_id) : i <= j
           IN  record_content(db, process_id) = event_alone(first).content

\* a document was stored, and then stored again in a later run
C1_Witness ==
    \E i, j \in stored_events :
        /\ i < j
        /\ event_file(i) = "wood.json" /\ event_file(j) = "wood.json"
        /\ log[i].run < log[j].run
        /\ Len(db.products) = 1
        /\ Len(db.exchange_moduleamounts) = 2

\* C2. Atomicity of store: in every committed state a process_id has either
\* no row at all or the Product row with all the child rows of one record;
\* a record whose store failed has no row, and no module amount hangs on a
\* missing exchange or LCIA result.
C2_AtomicStore ==
    /\ ~orphans(db)
    /\ \A process_id \in process_ids(db) :
          \E i \in stored_events_of(process_id) :
              /\ event_alone(i).ok
              /\ record_content(db, process_id) = event_alone(i).content

\* a store failed after the Product row went in, and a later file of the
\* same connection was committed
C2_Witness ==
    \E i, j \in 1..Len(log) :
        /\ i < j
        /\ log[i].event = "store_failed" /\ event_file(i) = "bad_amount.json"
        /\ log[j].event = "stored" /\ log[j].run = log[i].run
        /\ Len(db.products) = 1

\* C3. Per-file error isolation in a folder: a file whose parse fails never
\* reaches store; a failure of parse or store leaves the committed tables
\* as they were, takes the transaction back to them, and moves the loop to
\* the next file of the same folder; and when the folder is done every one
\* of its files has had exactly one outcome, the one it has on its own:
\* parse_failed exactly when its parse raises, stored when its store goes
\* through.
Outcomes == { "parse_failed", "store_failed", "stored" }
outcomes_of(n, k) ==
    { i \in 1..(n - 1) :
        /\ log[i].run = log[n].run /\ log[i].folder = log[n].folder
        /\ log[i].file = k /\ log[i].event \in Outcomes }
C3_EveryFileHasItsOutcome ==
    \A n \in 1..Len(log) :
        log[n].event = "folder_done" =>
            \A k \in 1..log[n].of :
                /\ Cardinality(outcomes_of(n, k)) = 1
                /\ \A i \in outcomes_of(n, k) :
                      /\ log[i].event = "parse_failed" <=> ~event_alone(i).parsed
                      /\ event_alone(i).ok => log[i].event = "stored"
C3_FailureStep ==
    \A event \in { "parse_failed", "store_failed" } :
        (Len(log') = Len(log) + 1 /\ log'[Len(log')].event = event) =>
            /\ db' = db /\ tx' = db
            /\ folder' = folder /\ file' = file + 1 /\ pc' = "file"
            /\ event = "parse_failed" => pc = "file" /\ tx = db
            /\ event = "store_failed" => pc = "insert"
C3_ErrorIsolation == [](C3_EveryFileHasItsOutcome) /\ [][C3_FailureStep]_vars

\* in one folder a file failed in store after its Product row went in, and
\* a later file of the folder was stored
C3_Witness ==
    \E n \in 1..Len(log) :
        /\ log[n].event = "folder_done"
        /\ \E i, j \in 1..(n - 1) :
              /\ log[i].run = log[n].run /\ log[i].folder = log[n].folder
              /\ log[j].run = log[n].run /\ log[j].folder = log[n].folder
              /\ log[i].event = "store_failed" /\ log[j].event = "stored"
              /\ log[i].file < log[j].file
              /\ event_file(j) = "wood.json"
              /\ process_ids(db) = { << "u1", "v1" >> }

\* C4. A document without its UUID field or without its version field is a
\* structural error: its parse fails, no Product row is stored for it, and
\* it is not counted as processed, so a folder counts at most its files
\* that have both fields.
has_uuid(data) ==
    Has(Get(Get(data, "processInformation", EmptyDict),
            "dataSetInformation", EmptyDict), "UUID")
has_version(data) ==
    Has(Get(Get(data, "administrativeInformation", EmptyDict),
            "publicationAndOwnership", EmptyDict), "dataSetVersion")
identified(file_name) == has_uuid(json_load(file_name)) /\ has_version(json_load(file_name))
C4_MissingUuidIsStructuralError ==
    /\ \A i \in 1..Len(log) :
          (log[i].event \in Outcomes /\ ~identified(event_file(i)))
              => log[i].event = "parse_failed"
    /\ \A process_id \in process_ids(db) : process_id[1] # "" /\ process_id[2] # ""
    /\ \A n \in 1..Len(log) :
          log[n].event = "folder_done" =>
              log[n].processed <=
                  Cardinality({ k \in 1..log[n].of :
                      identified(data_dir[log[n].folder].json_files[k]) })

\* C5. get_or_create_datastock under a race: every caller that has returned
\* has returned the id of the committed row of its uuid, never None.
C5_RaceReturnsExistingId ==
    \A c \in Callers :
        callers[c].pc = "returned" =>
            /\ callers[c].datastock_id # NoneInt
            /\ \E i \in 1..Len(db.datastocks) :
                  /\ db.datastocks[i].uuid = callers[c].datastock_uuid
                  /\ db.datastocks[i].datastock_id = callers[c].datastock_id

\* C6. get_or_create_datastock, called one call after the other: the tables
\* hold at most one row per uuid and keep the rows they have; a call whose
\* uuid has a row returns that row's id and inserts nothing, whatever the
\* name; a call whose uuid has none inserts one row with a fresh id.
datastocks_of(t, uuid) == { i \in 1..Len(t.datastocks) : t.datastocks[i].uuid = uuid }
C6_OneRowPerUuid ==
    \A uuid \in DatastockUuids :
        Cardinality(datastocks_of(db, uuid)) <= 1 /\ Cardinality(datastocks_of(tx, uuid)) <= 1
C6_GetOrCreateStep ==
    /\ Len(db'.datastocks) >= Len(db.datastocks)
    /\ \A i \in 1..Len(db.datastocks) : db'.datastocks[i] = db.datastocks[i]
    /\ (pc = "folder" /\ folder <= Len(data_dir) /\ data_dir[folder].name.matches) =>
          LET uuid == data_dir[folder].name.uuid
              rows == datastocks_of(db, uuid)
          IN  IF rows # {}
              THEN /\ \A i \in rows : datastock_id' = db.datastocks[i].datastock_id
                   /\ pc' = "file"
                   /\ db' = db /\ tx' = tx /\ serial' = serial
              ELSE /\ pc' = "datastock_commit"
                   /\ datastock_id' = serial.datastocks
                   /\ \A i \in 1..Len(db.datastocks) :
                         db.datastocks[i].datastock_id # datastock_id'
                   /\ tx'.datastocks =
                         Append(tx.datastocks,
                                [datastock_id |-> datastock_id',
                                 name |-> data_dir[folder].name.name, uuid |-> uuid])
C6_OneDatastockPerUuid == [](C6_OneRowPerUuid) /\ [][C6_GetOrCreateStep]_vars

\* the second folder carries the uuid of the first under another name, and
\* the call for it has returned the id of the row the first call made
C6_Witness ==
    /\ folder = 2 /\ pc = "file"
    /\ data_dir[1].name.name = "Default" /\ data_dir[2].name.name = "Other"
    /\ datastock_id = 1
    /\ db.datastocks = << [datastock_id |-> 1, name |-> "Default", uuid |-> "1111-2222"] >>

\* C7. Resumability: whenever the run is killed, between files or in the
\* middle of a record, the committed tables hold only whole records; a
\* step, a kill or a restart never changes what is committed for a
\* process_id; and a run that ends, after whatever kills before it, leaves
\* what one run without a kill leaves: for every process_id the record of
\* the first file of the directory that stores it.
listed_files ==
    { [folder |-> f, file |-> k] :
        f \in 1..Len(data_dir), k \in 1..MaxFiles }
      \ { p \in [folder : 1..Len(data_dir), file : 1..MaxFiles] :
              p.file > Len(data_dir[p.folder].json_files) }
alone_of(p) ==
    (CHOOSE r \in StoredAlone :
        /\ r.file_name = data_dir[p.folder].json_files[p.file]
        /\ r.uuid = data_dir[p.folder].name.uuid).alone
before(p, q) == p.folder < q.folder \/ (p.folder = q.folder /\ p.file < q.file)
storing(process_id) ==
    { p \in listed_files : alone_of(p).ok /\ alone_of(p).process_id = process_id }
uninterrupted(process_id) ==
    IF storing(process_id) = {} THEN NoContent
    ELSE alone_of(CHOOSE p \in storing(process_id) :
                      \A q \in storing(process_id) : p = q \/ before(p, q)).content
StorablePids == { r.alone.process_id : r \in { x \in StoredAlone : x.alone.ok } }
C7_WholeRecords ==
    /\ ~orphans(db)
    /\ \A process_id \in process_ids(db) :
          \E r \in StoredAlone :
              /\ r.alone.ok /\ r.alone.process_id = process_id
              /\ record_content(db, process_id) = r.alone.content
C7_AsUninterrupted ==
    pc = "done" =>
        /\ process_ids(db) \subseteq StorablePids
        /\ \A process_id \in StorablePids :
              record_content(db, process_id) = uninterrupted(process_id)
C7_CommittedStays ==
    \A process_id \in process_ids(db) :
        record_content(db', process_id) = record_content(db, process_id)
C7_Resumable ==
    [](C7_WholeRecords /\ C7_AsUninterrupted) /\ [][C7_CommittedStays]_vars

\* the first run was killed in the middle of a record, after a record was
\* committed, and the second run has ended
C7_Witness ==
    /\ pc = "done" /\ runs = 2
    /\ \E i, j \in 1..Len(log) :
          /\ log[i].run = 1 /\ log[i].event = "stored"
          /\ log[j].run = 1 /\ log[j].event = "killed" /\ log[j].at = "insert"
          /\ log[j].open
    /\ Cardinality(process_ids(db)) = 2

\* C8. Store never updates: a store of a record whose process_id has a
\* Product row leaves the committed tables, the transaction and the
\* sequences as they are, so the Product row with its datastock_id and
\* every child row stay, whatever the new record holds and whichever
\* datastock_id is passed; the file counts as processed.
C8_StoreExistingStep ==
    (pc = "store" /\ product_exists(db, item.process_id)) =>
        /\ db' = db /\ tx' = db /\ serial' = serial
        /\ \A table \in ChildTables \cup { "products" } :
              of_process(db'[table], item.process_id) = of_process(db[table], item.process_id)
        /\ file_count' = file_count + 1
C8_StoreNeverUpdates == [][C8_StoreExistingStep]_vars

\* a record of another name and without LCIA results, from the folder of
\* another datastock, was stored over the record that is there
C8_Witness ==
    /\ Len(log) > 0
    /\ log[Len(log)].event = "stored"
    /\ event_file(Len(log)) = "wood_revised.json"
    /\ event_uuid(Len(log)) = "3333-4444"
    /\ Len(db.products) = 1
    /\ db.products[1].name_en = << "W","o","o","d" >>
    /\ datastock_uuid_of(db, db.products[1].datastock_id) = "1111-2222"
    /\ Len(db.lcia_results) > 0

\* C9. Reference flow: parse raises when the declared reference-flow id is
\* the dataSetInternalID of no exchange of the document or of more than
\* one; it returns a record only when exactly one exchange carries it.
declares_reference_flow(data) ==
    Get(Get(Get(data, "processInformation", EmptyDict),
            "quantitativeReference", EmptyDict),
        "referenceToReferenceFlow", << >>) # << >>
declared_exchanges(data) ==
    LET exchange == Get(Get(data, "exchanges", EmptyDict), "exchange", << >>)
        id == data.processInformation.quantitativeReference.referenceToReferenceFlow[1]
    IN  { i \in 1..Len(exchange) : Get(exchange[i], "dataSetInternalID", NoneInt) = id }
C9_ReferenceFlowMatchesOnce ==
    (pc = "parsed" /\ ~result.raised) =>
        /\ declares_reference_flow(document)
        /\ Cardinality(declared_exchanges(document)) = 1

\* C10. Parse tolerates every missing optional part: a document that has
\* its UUID, its version and its reference-flow declaration is parsed to a
\* record, whatever else is absent, and parse raises only for a document
\* that lacks one of the three.
has_anchors(data) ==
    has_uuid(data) /\ has_version(data) /\ declares_reference_flow(data)
C10_RaisesOnlyOnAnchors ==
    pc = "parsed" => (result.raised <=> ~has_anchors(document))

\* The interpreter goes on: a run that is at a statement of the script
\* executes it. Every handler ends in one of its branches, so a step is
\* there to take at every position of the script, and after the end of a
\* run while a further run is left. This is weak fairness of Next, with the
\* positions written out in place of ENABLED Next.
CanStep ==
    \/ pc \in { "folder", "datastock_commit", "file", "store", "insert" }
    \/ (pc \in { "done", "killed" } /\ runs < MaxRuns)
Fairness == []<>(~CanStep) \/ []<><<TRUE>>_vars
SpecFair == Init /\ [][Next]_vars /\ Fairness

\* the log lines of folder n's report that hold one of the given events
folder_events(n, events) ==
    { i \in 1..(n - 1) :
        /\ log[i].run = log[n].run /\ log[i].folder = log[n].folder
        /\ log[i].event \in events }
\* the sum of the counts that the folders of a run reported
RECURSIVE reported(_, _)
reported(lines, run) ==
    IF lines = << >> THEN 0
    ELSE (IF Head(lines).event = "folder_done" /\ Head(lines).run = run
          THEN Head(lines).processed ELSE 0) + reported(Tail(lines), run)

\* C11. The success counts are exact: the count a folder reports is the
\* number of its files that were parsed and stored without error, which is
\* the number of its files less those whose parse or store failed and never
\* more than the number of its files, and every counted file has its Product
\* row committed; the total of a run is the sum of the counts of its
\* folders; and every run reaches its end, whatever fails.
C11_FolderCount ==
    \A n \in 1..Len(log) :
        log[n].event = "folder_done" =>
            /\ log[n].of = Len(data_dir[log[n].folder].json_files)
            /\ log[n].processed = Cardinality(folder_events(n, { "stored" }))
            /\ log[n].processed =
                  log[n].of - Cardinality(folder_events(n, { "parse_failed", "store_failed" }))
            /\ log[n].processed <= log[n].of
            /\ \A i \in folder_events(n, { "stored" }) :
                  /\ event_alone(i).parsed
                  /\ product_exists(db, event_alone(i).process_id)
C11_Total ==
    /\ pc = "folder" => total_processed = reported(log, runs)
    /\ pc = "done" => total_processed = reported(log, runs)
C11_ExactCounts == [](C11_FolderCount /\ C11_Total) /\ []<>(pc = "done")

\* a run is done whose first folder counted one of its two files and whose
\* second folder counted both
C11_Witness ==
    /\ pc = "done"
    /\ total_processed = 3
    /\ \E n \in 1..Len(log) :
          /\ log[n].event = "folder_done" /\ log[n].run = runs
          /\ log[n].processed = 1 /\ log[n].of = 2
          /\ folder_events(n, { "store_failed" }) # {}

\* ------------------------------------- parse_json on the extension entries
\* Documents with one exchange and one LCIA result that hold the same
\* `other.anies` list of up to MaxEntries entries. An entry has or lacks a
\* name, a module, a scenario and a value; the value is a JSON string or
\* the object of a unit descriptor. EntryValues gives every value with the
\* number it denotes as a decimal literal, NoneFloat where it denotes none.
MaxEntries == 2
UnitDescriptor == [shortDescription |-> << [value |-> "MJ"] >>]
EntryValues ==
    << [value |-> [str |-> << >>], amount |-> NoneFloat],
       [value |-> [str |-> << "1",".","2","3" >>], amount |-> [n |-> 123, e |-> 2]],
       [value |-> [str |-> << "-","0",".","5","0" >>], amount |-> [n |-> 0 - 5, e |-> 1]],
       [value |-> [str |-> << " ","7"," " >>], amount |-> [n |-> 7, e |-> 0]],
       [value |-> [str |-> << "a","b","c" >>], amount |-> NoneFloat],
       [value |-> UnitDescriptor, amount |-> NoneFloat] >>
EntryShapes ==
    [name : { None, "referenceToUnitGroupDataSet" },
     module : { None, "A1", "C3" },
     scenario : { None, "S1" },
     value : 0..Len(EntryValues)]
shaped_entry(shape) ==
    optional(shape.name # None, [name |-> shape.name])
    @@ optional(shape.module # None, [module |-> shape.module])
    @@ optional(shape.scenario # None, [scenario |-> shape.scenario])
    @@ optional(shape.value # 0, [value |-> EntryValues[shape.value].value])
Entries == { shaped_entry(shape) : shape \in EntryShapes }
entries_document(anies) ==
    [Wood EXCEPT
        !.exchanges = [exchange |-> << [dataSetInternalID |-> 0,
                                        meanAmount |-> << "1" >>,
                                        other |-> [anies |-> anies]] >>],
        !.LCIAResults = [LCIAResult |-> << [meanAmount |-> << "7" >>,
                                            other |-> [anies |-> anies]] >>]]
EntriesDocuments == { entries_document(anies) : anies \in SeqsUpTo(Entries, MaxEntries) }

InitParseEntries ==
    /\ db = EmptyDatabase
    /\ tx = EmptyDatabase
    /\ serial = InitialSerial
    /\ data_dir = << >>
    /\ runs = 1
    /\ pc = "parse"
    /\ folder = 1
    /\ file = 1
    /\ file_count = 0
    /\ total_processed = 0
    /\ datastock_id = NoneInt
    /\ item = NoItem
    /\ pending = << >>
    /\ last_id = NoneInt
    /\ not_found_translations = << >>
    /\ log = << >>
    /\ callers = << >>
    /\ document \in EntriesDocuments
    /\ result = NoItem

SpecEntries == InitParseEntries /\ [][NextParseDocument]_vars

\* the extension entries of the document at hand, and what the parse made
\* of them for its exchange and for its LCIA result
document_anies == document.exchanges.exchange[1].other.anies
module_entries == { k \in 1..Len(document_anies) : Has(document_anies[k], "module") }
last_of_module(k) ==
    \A j \in module_entries :
        document_anies[j].module = document_anies[k].module => j <= k
denoted_amount(x) ==
    IF ~Has(x, "value") THEN NoneFloat
    ELSE (CHOOSE v \in Range(EntryValues) : v.value = x.value).amount
extracted_from(x) ==
    [module |-> x.module, amount |-> denoted_amount(x), scenario |-> Get(x, "scenario", "")]

\* C12. Module-amount extraction: parse does not raise on any extension
\* entry, and of every entry with a module key it extracts the number its
\* value denotes, null where the value is absent, empty or no number, with
\* the entry's scenario or the empty string: taken alone the entry gives
\* that one triple, and the exchange and the LCIA result hold under each
\* module the triple of the last entry of that module.
C12_ModuleAmounts ==
    pc = "parsed" =>
        /\ ~result.raised
        /\ \A k \in module_entries :
              /\ parse_module_amounts(<< document_anies[k] >>, << >>)
                    = << extracted_from(document_anies[k]) >>
              /\ last_of_module(k) =>
                    /\ extracted_from(document_anies[k])
                          \in Range(result.item.exchanges[1].module_amounts)
                    /\ extracted_from(document_anies[k])
                          \in Range(result.item.lcia_results[1].module_amounts)

\* a parsed document with an entry whose value is a number and an entry of
\* another module without value and scenario
C12_Witness ==
    /\ pc = "parsed"
    /\ Len(document_anies) = 2
    /\ document_anies[1] = [module |-> "A1", value |-> [str |-> << "1",".","2","3" >>]]
    /\ document_anies[2] = [module |-> "C3"]
    /\ result.item.exchanges[1].module_amounts
          = << [module |-> "A1", amount |-> [n |-> 123, e |-> 2], scenario |-> ""],
               [module |-> "C3", amount |-> NoneFloat, scenario |-> ""] >>

\* ------------------------------------------- translate_text on its own
\* Dictionaries of up to MaxRows rows and the texts looked up in them. A
\* row is a sequence of cells; the German cell may be padded, in another
\* case, or hold a comma; a row may lack its English cell or hold a blank
\* one.
MaxRows == 2
DictionaryRows ==
    { << << "H","o","l","z" >>, << "W","o","o","d" >> >>,
      << << " ","B","e","t","o","n"," " >>, << "C","o","n","c","r","e","t","e" >> >>,
      << << "H","o","l","z",","," ","m","a","s","s","i","v" >>,
         << "S","o","l","i","d"," ","w","o","o","d" >> >>,
      << << "S","t","a","h","l" >> >>,
      << << "G","l","a","s" >>, << " " >> >> }
LookupTexts ==
    { << "H","o","l","z" >>,
      << " ","H","O","L","Z"," " >>,
      << "H","o","l","z","," >>,
      << "b","e","t","o","n" >>,
      << "H","o","l","z",","," ","m","a","s","s","i","v" >>,
      << "h","o","l","z"," ","m","a","s","s","i","v" >>,
      << "S","t","a","h","l" >>,
      << "G","l","a","s" >>,
      << >>,
      NoneText }

InitTranslate ==
    /\ db = EmptyDatabase
    /\ tx = EmptyDatabase
    /\ serial = InitialSerial
    /\ data_dir = << >>
    /\ runs = 1
    /\ pc = "translate"
    /\ folder = 1
    /\ file = 1
    /\ file_count = 0
    /\ total_processed = 0
    /\ datastock_id = NoneInt
    /\ item = NoItem
    /\ pending = << >>
    /\ last_id = NoneInt
    /\ not_found_translations = << >>
    /\ log = << >>
    /\ callers = << >>
    /\ document \in [rows : SeqsUpTo(DictionaryRows, MaxRows), text : LookupTexts]
    /\ result = NoItem

\* translate_text(text, translations) with the dictionary load_translations
\* made of the rows
TranslateText ==
    /\ pc = "translate"
    /\ LET translated == translate_text(document.text, load_rows(document.rows, EmptyDict),
                                        not_found_translations)
       IN  /\ result' = [text |-> translated.text]
           /\ not_found_translations' = translated.not_found
    /\ pc' = "translated"
    /\ UNCHANGED << db, tx, serial, data_dir, runs, folder, file, file_count,
                    total_processed, datastock_id, item, pending, last_id, log,
                    callers, document >>

NextTranslate == TranslateText

SpecTranslate == InitTranslate /\ [][NextTranslate]_vars

\* the normal form of a term: stripped, in lower case, without commas
normalized(t) == str_strip(str_lower(str_remove_commas(t)))
\* the rows of the dictionary at hand with a German and an English term,
\* and those of them that the text at hand matches in normal form
full_rows ==
    { i \in 1..Len(document.rows) :
        /\ Len(document.rows[i]) >= 2
        /\ str_strip(document.rows[i][1]) # << >>
        /\ str_strip(document.rows[i][2]) # << >> }
matching_rows ==
    IF document.text = NoneText THEN {}
    ELSE { i \in full_rows : normalized(document.rows[i][1]) = normalized(document.text) }

\* C13. Translation lookup: a text whose normal form (stripped, lower case,
\* commas removed) is the normal form of the German term of a dictionary
\* row with both terms translates to the English term of that row, and a
\* text that matches no such row comes back unchanged.
C13_TranslationLookup ==
    pc = "translated" =>
        /\ matching_rows = {} => result.text = document.text
        /\ \A i \in matching_rows :
              (\A j \in matching_rows : j <= i) =>
                  result.text = str_strip(document.rows[i][2])

\* ---------------------------------------- get_indicator_key on its own
\* A run has one iteration order of the set target_indicators; the
\* resolver is called MaxCalls times on the same multilingual map of up to
\* two language variants.
MaxCalls == 2
Reverse(s) == list([i \in 1..Len(s) |-> s[Len(s) + 1 - i]])
IterationOrders == { target_indicators, Reverse(target_indicators) }
VariantTexts ==
    { << "G","W","P","-","t","o","t","a","l" >>,
      << "g","w","p","-","T","o","t","a","l"," ","(","k","g",")" >>,
      << "G","W","P","t","o","t","a","l" >>,
      << "G","W","P","-","t","o","t","a","l","_","x" >>,
      << "P","E","R","E"," ","+"," ","P","E","R","T" >>,
      << "s","u","p","e","r","e" >>,
      << "K","l","i","m","a" >>,
      << >> }
VariantMaps ==
    { << >> }
    \cup { << [lang |-> "en", value |-> t] >> : t \in VariantTexts }
    \cup { << [lang |-> "de", value |-> t], [lang |-> "en", value |-> u] >> :
              t \in VariantTexts, u \in VariantTexts }

InitResolve ==
    /\ db = EmptyDatabase
    /\ tx = EmptyDatabase
    /\ serial = InitialSerial
    /\ data_dir = << >>
    /\ runs = 1
    /\ pc = "resolve"
    /\ folder = 1
    /\ file = 1
    /\ file_count = 0
    /\ total_processed = 0
    /\ datastock_id = NoneInt
    /\ item = NoItem
    /\ pending = << >>
    /\ last_id = NoneInt
    /\ not_found_translations = << >>
    /\ log = << >>
    /\ callers = << >>
    /\ document \in [order : IterationOrders, variants : VariantMaps]
    /\ result = << >>

\* one call get_indicator_key(multilang_dict) of the run
ResolveIndicator ==
    /\ pc = "resolve"
    /\ Len(result) < MaxCalls
    /\ result' = Append(result, get_indicator_key(document.variants, document.order))
    /\ UNCHANGED << db, tx, serial, data_dir, runs, pc, folder, file, file_count,
                    total_processed, datastock_id, item, pending, last_id,
                    not_found_translations, log, callers, document >>

NextResolve == ResolveIndicator

SpecResolve == InitResolve /\ [][NextResolve]_vars

\* the code stands in the text as a whole word, in any case: a stretch of
\* the text spells it and no letter, digit or underscore stands right
\* before or right after the stretch
spells(code, text, i) ==
    /\ i >= 1 /\ i + Len(code) - 1 <= Len(text)
    /\ \A j \in 1..Len(code) : lower_char(text[i + j - 1]) = lower_char(code[j])
occurs_as_word(code, text) ==
    \E i \in 1..Len(text) :
        /\ spells(code, text, i)
        /\ (i > 1 => text[i - 1] \notin WordChars)
        /\ (i + Len(code) <= Len(text) => text[i + Len(code)] \notin WordChars)
occurring_codes ==
    { code \in Range(target_indicators) :
        \E v \in 1..Len(document.variants) : occurs_as_word(code, document.variants[v].value) }
only_text(text) ==
    document.variants # << >>
    /\ \A v \in 1..Len(document.variants) : document.variants[v].value = text

\* C14. Indicator resolution: every call returns without raising; the code
\* it returns is a canonical code that stands as a whole word in a language
\* variant of the input, and it returns null exactly when no canonical code
\* does; GWP-total alone resolves to GWP-total and GWPtotal alone to null;
\* and all calls of a run on the same input return the same.
C14_IndicatorResolution ==
    \A c \in 1..Len(result) :
        /\ ~result[c].raised
        /\ result[c].key # NoneText => result[c].key \in occurring_codes
        /\ result[c].key = NoneText <=> occurring_codes = {}
        /\ only_text(<< "G","W","P","-","t","o","t","a","l" >>)
              => result[c].key = << "G","W","P","-","t","o","t","a","l" >>
        /\ only_text(<< "G","W","P","t","o","t","a","l" >>) => result[c].key = NoneText
        /\ \A d \in 1..Len(result) : result[d] = result[c]

\* two calls on a text that holds two codes, in a run whose order puts
\* PERT first
C14_Witness ==
    /\ Len(result) = MaxCalls
    /\ only_text(<< "P","E","R","E"," ","+"," ","P","E","R","T" >>)
    /\ result[1].key = << "P","E","R","T" >>
    /\ result[2].key = << "P","E","R","T" >>

\* --------------------------------------- parse_json on the classifications
\* Documents with up to MaxBlocks classification blocks, of the system
\* oekobau.dat (its name in mixed case) or of another system, each with up
\* to MaxClasses classes of level 0 to 3 whose value is in the dictionary
\* (Holz) or not (Ziegel).
MaxBlocks == 2
MaxClasses == 2
SystemNames == { << "O","e","k","o","b","a","u",".","D","A","T" >>, << "I","S","O" >> }
ClassValues == { << "H","o","l","z" >>, << "Z","i","e","g","e","l" >> }
Classes == [level : 0..3, classId : { "1" }, value : ClassValues]
Blocks == [name : SystemNames, class : SeqsUpTo(Classes, MaxClasses)]
blocks_document(blocks) ==
    [Wood EXCEPT !.processInformation.dataSetInformation.classificationInformation =
                     [classification |-> blocks]]
BlocksDocuments == { blocks_document(blocks) : blocks \in SeqsUpTo(Blocks, MaxBlocks) }

InitParseBlocks ==
    /\ db = EmptyDatabase
    /\ tx = EmptyDatabase
    /\ serial = InitialSerial
    /\ data_dir = << >>
    /\ runs = 1
    /\ pc = "parse"
    /\ folder = 1
    /\ file = 1
    /\ file_count = 0
    /\ total_processed = 0
    /\ datastock_id = NoneInt
    /\ item = NoItem
    /\ pending = << >>
    /\ last_id = NoneInt
    /\ not_found_translations = << >>
    /\ log = << >>
    /\ callers = << >>
    /\ document \in BlocksDocuments
    /\ result = NoItem

SpecBlocks == InitParseBlocks /\ [][NextParseDocument]_vars

\* the classes of the oekobau.dat blocks of a document in document order,
\* those of one level, and the dictionary's English term for a value
document_blocks(data) ==
    data.processInformation.dataSetInformation.classificationInformation.classification
oekobau_classes(data) ==
    Concat(list([b \in 1..Len(document_blocks(data)) |->
        IF str_lower(document_blocks(data)[b].name) = Oekobau
        THEN document_blocks(data)[b].class ELSE << >>]))
at_level(data, level) == SelectSeq(oekobau_classes(data), LAMBDA c : c.level = level)
in_english(value) ==
    IF \E r \in 1..Len(TranslationRows) :
          Len(TranslationRows[r]) >= 2 /\ TranslationRows[r][1] = value
    THEN TranslationRows[CHOOSE r \in 1..Len(TranslationRows) :
                            Len(TranslationRows[r]) >= 2 /\ TranslationRows[r][1] = value][2]
    ELSE value
categories_of(parsed) ==
    << parsed.item.category_level_1, parsed.item.category_level_2,
       parsed.item.category_level_3 >>
only_oekobau(data) ==
    blocks_document(SelectSeq(document_blocks(data),
                              LAMBDA b : str_lower(b.name) = Oekobau))

\* C15. Category projection: the parse goes through; category_level_1, 2
\* and 3 hold the value of an oekobau.dat class of level 0, 1 and 2, in
\* English where the dictionary has the value and as it is otherwise; a
\* level without oekobau.dat class leaves its category null; and the blocks
\* of other systems change nothing: without them the categories are the
\* same.
C15_CategoryProjection ==
    pc = "parsed" =>
        /\ ~result.raised
        /\ \A level \in 0..2 :
              IF at_level(document, level) = << >>
              THEN categories_of(result)[level + 1] = NoneText
              ELSE \E k \in 1..Len(at_level(document, level)) :
                      categories_of(result)[level + 1]
                          = in_english(at_level(document, level)[k].value)
        /\ categories_of(result)
              = categories_of(parse_json(only_oekobau(document), load_translations,
                                         << >>, target_indicators))

\* an oekobau.dat block with a class of level 0 in the dictionary and one of
\* level 1 that is not, and a block of another system with a class of
\* level 2
C15_Witness ==
    /\ pc = "parsed"
    /\ Len(document_blocks(document)) = 2
    /\ document_blocks(document)[1].name = << "O","e","k","o","b","a","u",".","D","A","T" >>
    /\ document_blocks(document)[2] =
          [name |-> << "I","S","O" >>,
           class |-> << [level |-> 2, classId |-> "1", value |-> << "H","o","l","z" >>] >>]
    /\ categories_of(result) = << << "W","o","o","d" >>, << "Z","i","e","g","e","l" >>, NoneText >>

\* the document without the classes of one level
without_level(data, level) ==
    blocks_document(list([b \in 1..Len(document_blocks(data)) |->
        [document_blocks(data)[b] EXCEPT
            !.class = SelectSeq(@, LAMBDA c : c.level # level)]]))

\* C19. Category tie-break: when several oekobau.dat classes have the same
\* level, over all blocks and their class lists, the category of that level
\* is the translated value of the one that comes last in the document, and
\* the categories of the other levels are what they are without the classes
\* of that level.
C19_LastEntryWins ==
    pc = "parsed" =>
        \A level \in 0..2 :
            Len(at_level(document, level)) >= 2 =>
                /\ categories_of(result)[level + 1]
                      = in_english(at_level(document, level)[
                                       Len(at_level(document, level))].value)
                /\ \A other \in (0..2) \ { level } :
                      categories_of(result)[other + 1]
                          = categories_of(parse_json(without_level(document, level),
                                                     load_translations, << >>,
                                                     target_indicators))[other + 1]

\* two oekobau.dat blocks: the first with a class of level 0 and one of
\* level 1, the second with another class of level 0
C19_Witness ==
    /\ pc = "parsed"
    /\ Len(document_blocks(document)) = 2
    /\ oekobau_classes(document) =
          << [level |-> 0, classId |-> "1", value |-> << "Z","i","e","g","e","l" >>],
             [level |-> 1, classId |-> "1", value |-> << "Z","i","e","g","e","l" >>],
             [level |-> 0, classId |-> "1", value |-> << "H","o","l","z" >>] >>
    /\ Len(document_blocks(document)[1].class) = 2
    /\ categories_of(result) = << << "W","o","o","d" >>, << "Z","i","e","g","e","l" >>, NoneText >>

\* ----------------------------------------------------------- timestamps
\* convert_timestamp. A JSON integer is [int |-> [negative, digits]] with
\* its decimal digits, a JSON string is [str |-> text], null is NoValue.
\* Integers here are narrower than a timestamp in
\* milliseconds, so the arithmetic is done on the digits.
MsPerDay == 86400000
\* days from 1970-01-01 to 0001-01-01 and to 9999-12-31, the range of datetime
MinDay == 0 - 719162
MaxDay == 2932896
\* a count of days that is past MaxDay stays at this
DayCap == 10000000
\* the milliseconds past which gmtime() fails on the seconds, so that
\* fromtimestamp raises OSError or OverflowError: after and before 1970
PlatformMax == << "6","7","7","6","8","0","3","6","1","9","1","6","7","6","8","0","0","0","0","0" >>
PlatformMin == << "6","7","7","6","8","0","4","0","6","0","9","7","4","0","8","0","0","0","0","0" >>

\* int(text): [ok, negative, digits]
python_int(text) ==
    LET t == str_strip(text)
        signed == t # << >> /\ Head(t) \in { "+", "-" }
        body == IF signed THEN Tail(t) ELSE t
    IN  IF body = << >> \/ \E i \in 1..Len(body) : body[i] \notin Digits
        THEN [ok |-> FALSE]
        ELSE [ok |-> TRUE, negative |-> signed /\ Head(t) = "-", digits |-> body]

RECURSIVE strip_zeros(_)
strip_zeros(digits) ==
    IF Len(digits) > 1 /\ Head(digits) = "0" THEN strip_zeros(Tail(digits)) ELSE digits

\* a >= b for numbers given by their digits without leading zeros
RECURSIVE digits_ge(_, _)
digits_ge(a, b) ==
    IF Len(a) # Len(b) THEN Len(a) > Len(b)
    ELSE IF a = << >> THEN TRUE
    ELSE IF Head(a) # Head(b) THEN digit_value(Head(a)) > digit_value(Head(b))
    ELSE digits_ge(Tail(a), Tail(b))

\* digits divided by MsPerDay: the quotient, held at DayCap, and the rest
RECURSIVE days_and_rest(_, _, _)
days_and_rest(digits, q, r) ==
    IF digits = << >> THEN [days |-> q, rest |-> r]
    ELSE days_and_rest(Tail(digits),
            IF 10 * q + ((10 * r + digit_value(Head(digits))) \div MsPerDay) > DayCap
            THEN DayCap
            ELSE 10 * q + ((10 * r + digit_value(Head(digits))) \div MsPerDay),
            (10 * r + digit_value(Head(digits))) % MsPerDay)

\* the day and the millisecond of the day of a signed count of milliseconds
day_and_ms(negative, split) ==
    IF ~negative THEN [day |-> split.days, ms |-> split.rest]
    ELSE IF split.rest = 0 THEN [day |-> 0 - split.days, ms |-> 0]
    ELSE [day |-> 0 - split.days - 1, ms |-> MsPerDay - split.rest]

\* the date of a day counted from 1970-01-01, in the proleptic Gregorian
\* calendar of datetime
date_of_march_year(y, doy, mp) ==
    [year |-> IF mp < 10 THEN y ELSE y + 1,
     month |-> IF mp < 10 THEN mp + 3 ELSE mp - 9,
     day |-> doy - ((153 * mp + 2) \div 5) + 1]
date_of_era_day(era, doe, yoe) ==
    date_of_march_year(
        yoe + era * 400,
        doe - (365 * yoe + (yoe \div 4) - (yoe \div 100)),
        (5 * (doe - (365 * yoe + (yoe \div 4) - (yoe \div 100))) + 2) \div 153)
date_of_shifted(era, doe) ==
    date_of_era_day(era, doe,
        (doe - (doe \div 1460) + (doe \div 36524) - (doe \div 146096)) \div 365)
date_of_day(day) ==
    date_of_shifted((day + 719468) \div 146097, (day + 719468) % 146097)

\* datetime.fromtimestamp(ms / 1000, tz=timezone.utc), for counts whose
\* seconds a float holds exactly
utc_datetime(at) ==
    date_of_day(at.day)
    @@ [hour |-> at.ms \div 3600000,
        minute |-> (at.ms \div 60000) % 60,
        second |-> (at.ms \div 1000) % 60,
        microsecond |-> (at.ms % 1000) * 1000]

\* dt.isoformat()
RECURSIVE zero_padded(_, _)
zero_padded(n, width) ==
    IF width = 0 THEN << >>
    ELSE Append(zero_padded(n \div 10, width - 1),
                CHOOSE c \in Digits : digit_value(c) = n % 10)
isoformat(dt) ==
    zero_padded(dt.year, 4) \o << "-" >> \o zero_padded(dt.month, 2) \o << "-" >>
    \o zero_padded(dt.day, 2) \o << "T" >> \o zero_padded(dt.hour, 2) \o << ":" >>
    \o zero_padded(dt.minute, 2) \o << ":" >> \o zero_padded(dt.second, 2)
    \o (IF dt.microsecond = 0 THEN << >>
        ELSE << "." >> \o zero_padded(dt.microsecond, 6))
    \o << "+","0","0",":","0","0" >>

\* lines 96-103 on an integer: [raised, value]
timestamp_of_int(negative, digits) ==
    IF digits_ge(digits, IF negative THEN PlatformMin ELSE PlatformMax)
    THEN [raised |-> TRUE, value |-> NoneText]
    ELSE IF \/ day_and_ms(negative, days_and_rest(digits, 0, 0)).day > MaxDay
            \/ day_and_ms(negative, days_and_rest(digits, 0, 0)).day < MinDay
    THEN [raised |-> FALSE, value |-> NoneText]
    ELSE [raised |-> FALSE,
          value |-> isoformat(utc_datetime(day_and_ms(negative, days_and_rest(digits, 0, 0))))]

\* convert_timestamp(unix_timestamp): [raised, value]
convert_timestamp(unix_timestamp) ==
    IF Has(unix_timestamp, "none") THEN [raised |-> FALSE, value |-> NoneText]
    ELSE IF Has(unix_timestamp, "str")
    THEN IF unix_timestamp.str = << >> \/ ~python_int(unix_timestamp.str).ok
         THEN [raised |-> FALSE, value |-> NoneText]
         ELSE timestamp_of_int(python_int(unix_timestamp.str).negative,
                               strip_zeros(python_int(unix_timestamp.str).digits))
    ELSE IF unix_timestamp.int.digits = << "0" >>
    THEN [raised |-> FALSE, value |-> NoneText]
    ELSE timestamp_of_int(unix_timestamp.int.negative, unix_timestamp.int.digits)

\* The values of the timeStamp field: absent, null, strings, and the
\* integers d * 10^k with their negatives, besides some chosen ones.
MaxExponent == 22
RECURSIVE zeros(_)
zeros(k) == IF k = 0 THEN << >> ELSE << "0" >> \o zeros(k - 1)
ChosenDigits ==
    { << "0" >>, << "1","7","0","0","0","0","0","0","0","0","0","0","0" >>, << "8","6","3","9","9","9","9","9" >>, << "8","6","4","0","0","0","0","0" >>, << "2","5","3","4","0","2","3","0","0","7","9","9","0","0","0" >>, << "2","5","3","4","0","2","3","0","0","8","0","0","0","0","0" >>, << "6","2","1","3","5","5","9","6","8","0","0","0","0","0" >>, << "6","2","1","3","5","5","9","6","8","0","0","0","0","1" >>, << "9","5","1","7","8","2","4","0","0","0","0","0" >>, << "1","7","0","9","1","6","4","8","0","0","0","0","0" >> }
TimestampIntegers ==
    { [int |-> [negative |-> negative, digits |-> digits]] :
        negative \in BOOLEAN,
        digits \in ChosenDigits
                   \cup { << d >> \o zeros(k) : d \in Digits \ { "0" }, k \in 0..MaxExponent } }
TimestampStrings ==
    { [str |-> text] : text \in { << >>, << "a","b","c" >>, << "1",".","5" >>,
                                 << " ","1","2"," " >>, << "-","5" >>,
                                 << "1","7","0","0","0","0","0","0","0","0","0","0","0" >> } }
EntryByObjects ==
    { EmptyDict, [timeStamp |-> NoValue] }
    \cup { [timeStamp |-> v] : v \in TimestampIntegers \cup TimestampStrings }

InitTimestamp ==
    /\ db = EmptyDatabase
    /\ tx = EmptyDatabase
    /\ serial = InitialSerial
    /\ data_dir = << >>
    /\ runs = 1
    /\ pc = "convert"
    /\ folder = 1
    /\ file = 1
    /\ file_count = 0
    /\ total_processed = 0
    /\ datastock_id = NoneInt
    /\ item = NoItem
    /\ pending = << >>
    /\ last_id = NoneInt
    /\ not_found_translations = << >>
    /\ log = << >>
    /\ callers = << >>
    /\ document \in EntryByObjects
    /\ result = NoItem

\* line 178: convert_timestamp(entry.get("timeStamp"))
ConvertTimestamp ==
    /\ pc = "convert"
    /\ result' = convert_timestamp(Get(document, "timeStamp", NoValue))
    /\ pc' = "converted"
    /\ UNCHANGED << db, tx, serial, data_dir, runs, folder, file, file_count,
                    total_processed, datastock_id, item, pending, last_id,
                    not_found_translations, log, callers, document >>

NextTimestamp == ConvertTimestamp

SpecTimestamp == InitTimestamp /\ [][NextTimestamp]_vars

\* C16. Timestamp conversion never raises: whatever the value of the
\* field, absent, null, text, zero, negative or a number of any magnitude,
\* the conversion returns null or an instant; null and text that is no
\* number give null, and 1700000000000 gives 2023-11-14T22:13:20 UTC.
C16_TimestampNeverRaises ==
    pc = "converted" =>
        /\ ~result.raised
        /\ Get(document, "timeStamp", NoValue) \in { NoValue, [str |-> << "a","b","c" >>] }
              => result.value = NoneText
        /\ Get(document, "timeStamp", NoValue) = [int |-> [negative |-> FALSE, digits |-> << "1","7","0","0","0","0","0","0","0","0","0","0","0" >>]]
              => result.value = << "2","0","2","3","-","1","1","-","1","4","T","2","2",":","1","3",":","2","0","+","0","0",":","0","0" >>

\* ------------------------------------------- rules on extension entries
\* what the two loops over other.anies make of one entry taken alone
yields_unit(x) == parse_unit(<< x >>, None) # None
yields_module_amount(x) == parse_module_amounts(<< x >>, << >>) # << >>

\* C18. Extension-entry disambiguation: an element of an other.anies list
\* falls under at most one rule; an entry named referenceToUnitGroupDataSet
\* that also carries a module key does not yield both a unit and a module
\* amount, neither taken alone nor in the parsed exchange and LCIA result.
C18_OneRulePerEntry ==
    pc = "parsed" =>
        /\ \A k \in 1..Len(document_anies) :
              ~(yields_unit(document_anies[k]) /\ yields_module_amount(document_anies[k]))
        /\ Len(document_anies) = 1 =>
              /\ ~(/\ result.item.exchanges[1].unit # None
                   /\ result.item.exchanges[1].module_amounts # << >>)
              /\ ~(/\ result.item.lcia_results[1].unit # None
                   /\ result.item.lcia_results[1].module_amounts # << >>)

\* ------------------------------------------------ storing module amounts
\* A document of EntriesDocuments is parsed and then stored by
\* store_data_in_db on a connection whose database holds its datastock.
InitStoreEntries ==
    /\ db = [EmptyDatabase EXCEPT !.datastocks =
                << [datastock_id |-> 1, name |-> "", uuid |-> "" ] >>]
    /\ tx = db
    /\ serial = [InitialSerial EXCEPT !.datastocks = 2]
    /\ data_dir = << >>
    /\ runs = 1
    /\ pc = "parse"
    /\ folder = 1
    /\ file = 1
    /\ file_count = 0
    /\ total_processed = 0
    /\ datastock_id = 1
    /\ item = NoItem
    /\ pending = << >>
    /\ last_id = NoneInt
    /\ not_found_translations = << >>
    /\ log = << >>
    /\ callers = << >>
    /\ document \in EntriesDocuments
    /\ result = NoItem

\* lines 408-573 and the commit of line 610: store_data_in_db(conn, item,
\* datastock_id) on the parsed item; a failed INSERT rolls back (line 616)
StoreParsed ==
    /\ pc = "parsed"
    /\ ~result.raised
    /\ item' = result.item
    /\ tx' = IF product_exists(tx, result.item.process_id)
             THEN store_existing(tx, result.item, datastock_id)
             ELSE execute_all(tx, serial,
                              store_statements(result.item, datastock_id), NoneInt).t
    /\ db' = tx'
    /\ serial' = [serial EXCEPT
                    !.exchanges = @ + Len(tx'.exchanges) - Len(tx.exchanges),
                    !.lcia_results = @ + Len(tx'.lcia_results) - Len(tx.lcia_results)]
    /\ file_count' = IF tx' # tx \/ product_exists(tx, result.item.process_id)
                     THEN file_count + 1 ELSE file_count
    /\ pc' = "stored"
    /\ UNCHANGED << data_dir, runs, folder, file, total_processed, datastock_id,
                    pending, last_id, not_found_translations, log, callers,
                    document, result >>

NextStoreEntries == ParseDocument \/ StoreParsed

SpecStoreEntries == InitStoreEntries /\ [][NextStoreEntries]_vars

\* the (module, scenario, amount) triples of the rows of a table
stored_triples(rows) ==
    { [module |-> rows[i].module, amount |-> rows[i].amount,
       scenario |-> rows[i].scenario] : i \in 1..Len(rows) }

\* C20. No module amount is lost: the stored exchange and the stored LCIA
\* result have as many module-amount rows as their extension entries with
\* a module key, and the (module, scenario, amount) triple of each such
\* entry is stored, also of two entries with one module and two scenarios.
C20_NoAmountLost ==
    pc = "stored" =>
        /\ Len(db.exchange_moduleamounts) = Cardinality(module_entries)
        /\ Len(db.lcia_moduleamounts) = Cardinality(module_entries)
        /\ \A k \in module_entries :
              /\ extracted_from(document_anies[k]) \in stored_triples(db.exchange_moduleamounts)
              /\ extracted_from(document_anies[k]) \in stored_triples(db.lcia_moduleamounts)

\* ------------------------------------- store_data_in_db from two workers
\* Each worker is a run of store_data_in_db([item], conn, datastock_id) on
\* a connection of its own, all for one process_id. A worker reads the
\* committed rows and the rows of its own transaction. products.process_id
\* is the primary key: an INSERT of a process_id waits while another
\* transaction holds an uncommitted row of it, and raises on a committed
\* one. The sequences of the SERIAL columns are shared.
Workers == 1..2
\* Wood with an LCIA result that the database refuses
WoodUnstorable == [Wood EXCEPT !.LCIAResults = BadAmount.LCIAResults]
WorkerItems ==
    { parse_json(data, load_translations, << >>, target_indicators).item :
        data \in { Wood, WoodRevised, WoodUnstorable } }
StockedDatabase ==
    [EmptyDatabase EXCEPT !.datastocks =
        << [datastock_id |-> 1, name |-> "Default", uuid |-> "1111-2222"] >>]

InitWorkers ==
    /\ db = StockedDatabase
    /\ tx = StockedDatabase
    /\ serial = [InitialSerial EXCEPT !.datastocks = 2]
    /\ data_dir = << >>
    /\ runs = 1
    /\ pc = "workers"
    /\ folder = 1
    /\ file = 1
    /\ file_count = 0
    /\ total_processed = 0
    /\ datastock_id = 1
    /\ item = NoItem
    /\ pending = << >>
    /\ last_id = NoneInt
    /\ not_found_translations = << >>
    /\ log = << >>
    /\ callers \in [Workers -> { [pc |-> "check", item |-> epd, pending |-> << >>,
                                 held |-> [t \in Tables |-> << >>],
                                 last_id |-> NoneInt, inserted |-> FALSE] :
                                    epd \in WorkerItems }]
    /\ document = EmptyDict
    /\ result = NoItem

WorkersUnchanged ==
    UNCHANGED << tx, data_dir, runs, pc, folder, file, file_count, total_processed,
                 datastock_id, item, pending, last_id, not_found_translations, log,
                 document, result >>

\* what the statements of a worker see: the committed rows and its own
worker_view(w) == [t \in Tables |-> db[t] \o callers[w].held[t]]
\* the rows of a view that are the worker's own
own_rows(t) == [table \in Tables |-> SubSeq(t[table], Len(db[table]) + 1, Len(t[table]))]

\* lines 412-419: the SELECT and the skip
WorkerCheck(w) ==
    /\ callers[w].pc = "check"
    /\ callers' = [callers EXCEPT ![w] =
                      IF product_exists(worker_view(w), callers[w].item.process_id)
                      THEN [@ EXCEPT !.pc = "commit"]
                      ELSE [@ EXCEPT !.pc = "insert",
                                     !.pending = store_statements(callers[w].item,
                                                                  datastock_id)]]
    /\ UNCHANGED << db, serial >>
    /\ WorkersUnchanged

\* a faulty variant of the INSERTs: the connection commits each statement
WorkerExecuteAutocommit(w) ==
    /\ callers[w].pc = "insert"
    /\ callers[w].pending # << >>
    /\ LET done == execute(db, serial, Head(callers[w].pending), callers[w].last_id)
       IN  /\ serial' = done.serial
           /\ db' = done.t
           /\ callers' = [callers EXCEPT ![w] =
                             IF done.ok
                             THEN [@ EXCEPT !.pending = Tail(@), !.last_id = done.id,
                                            !.inserted = TRUE]
                             ELSE [@ EXCEPT !.pc = "failed", !.pending = << >>]]
    /\ WorkersUnchanged
\* lines 422-571, one INSERT of the transaction, and line 616 when it raises
WorkerExecute(w) ==
    /\ callers[w].pc = "insert"
    /\ callers[w].pending # << >>
    /\ Head(callers[w].pending).table = "products" =>
          \A other \in Workers \ { w } :
              ~product_exists(callers[other].held,
                              Head(callers[w].pending).row.process_id)
    /\ LET done == execute(worker_view(w), serial, Head(callers[w].pending),
                           callers[w].last_id)
       IN  /\ serial' = done.serial
           /\ callers' = [callers EXCEPT ![w] =
                             IF done.ok
                             THEN [@ EXCEPT !.held = own_rows(done.t),
                                            !.pending = Tail(@),
                                            !.last_id = done.id,
                                            !.inserted = TRUE]
                             ELSE [@ EXCEPT !.pc = "failed",
                                            !.held = [t \in Tables |-> << >>],
                                            !.pending = << >>,
                                            !.inserted = FALSE]]
    /\ UNCHANGED db
    /\ WorkersUnchanged

\* line 573: conn.commit()
WorkerCommit(w) ==
    /\ \/ callers[w].pc = "commit"
       \/ callers[w].pc = "insert" /\ callers[w].pending = << >>
    /\ db' = worker_view(w)
    /\ callers' = [callers EXCEPT ![w] =
                      [@ EXCEPT !.pc = "stored", !.held = [t \in Tables |-> << >>]]]
    /\ UNCHANGED serial
    /\ WorkersUnchanged

NextWorkers == \E w \in Workers : WorkerCheck(w) \/ WorkerExecute(w) \/ WorkerCommit(w)

SpecWorkers == InitWorkers /\ [][NextWorkers]_vars

\* the process_id of the workers, and what the store of an item alone
\* leaves under it
WorkersProcessId == << "u1", "v1" >>
content_alone(epd) ==
    record_content(
        execute_all(StockedDatabase, [InitialSerial EXCEPT !.datastocks = 2],
                    store_statements(epd, 1), NoneInt).t,
        WorkersProcessId)
committers == { w \in Workers : callers[w].pc = "stored" /\ callers[w].inserted }

\* C17. Parallel store of the same record: under every interleaving of the
\* check and insert steps of two workers on separate connections, the
\* committed database holds at most one Product row of the process_id, and
\* the rows under it are those of exactly one worker's transaction: none
\* before a worker has committed its inserts, then the rows that the store
\* of that worker's item alone leaves, never a mix or a doubled set.
C17_OneWorkersRecord ==
    /\ Len(of_process(db.products, WorkersProcessId)) <= 1
    /\ Cardinality(committers) <= 1
    /\ committers = {} => record_content(db, WorkersProcessId)
                           = record_content(StockedDatabase, WorkersProcessId)
    /\ \A w \in committers :
          record_content(db, WorkersProcessId) = content_alone(callers[w].item)

\* both workers passed the check with different items; one committed its
\* record and the INSERT of the other raised on the primary key
C17_Witness ==
    \E w, other \in Workers :
        /\ w \in committers
        /\ callers[other].pc = "failed"
        /\ callers[other].item # callers[w].item
        /\ content_alone(callers[other].item).products # << >>
        /\ record_content(db, WorkersProcessId).exchanges # << >>

\* ------------------------------------------------- referential integrity
\* the foreign keys of the tables, read on the committed rows
children_have_product(t) ==
    \A table \in ChildTables :
        \A i \in 1..Len(t[table]) : product_exists(t, t[table][i].process_id)
amounts_have_parent(t) ==
    /\ \A i \in 1..Len(t.exchange_moduleamounts) :
          \E j \in 1..Len(t.exchanges) :
              t.exchanges[j].id = t.exchange_moduleamounts[i].parent_id
    /\ \A i \in 1..Len(t.lcia_moduleamounts) :
          \E j \in 1..Len(t.lcia_results) :
              t.lcia_results[j].id = t.lcia_moduleamounts[i].parent_id
products_have_datastock(t) ==
    \A i \in 1..Len(t.products) :
        \E j \in 1..Len(t.datastocks) :
            t.datastocks[j].datastock_id = t.products[i].datastock_id
C21_Integrity ==
    /\ children_have_product(db)
    /\ amounts_have_parent(db)
    /\ products_have_datastock(db)
\* a step keeps the committed Product rows as they are, and a Product row
\* it commits carries the id of the DataStock row with the uuid of the
\* folder at hand
C21_ImportStep ==
    /\ Len(db'.products) >= Len(db.products)
    /\ \A i \in 1..Len(db'.products) :
          IF i <= Len(db.products)
          THEN db'.products[i] = db.products[i]
          ELSE \E j \in 1..Len(db'.datastocks) :
                  /\ db'.datastocks[j].datastock_id = db'.products[i].datastock_id
                  /\ db'.datastocks[j].uuid = data_dir[folder].name.uuid

\* C21. Referential integrity after any sequence of folder runs with any
\* mix of parse and store failures: in every committed state each child
\* row refers to an existing Product row, each module-amount row to an
\* existing exchange or LCIA result, and each Product row carries the id
\* of an existing DataStock row, the one resolved for the folder from
\* which the Product was first imported.
C21_ReferentialIntegrity == [](C21_Integrity) /\ [][C21_ImportStep]_vars

\* a second run is over; a Product of the second DataStock is committed
\* with module amounts, and a parse and a store have failed
C21_Witness ==
    /\ pc = "done"
    /\ runs = 2
    /\ \E i \in 1..Len(db.products) : db.products[i].datastock_id = 2
    /\ db.lcia_moduleamounts # << >>
    /\ \E i \in 1..Len(log) : log[i].event = "store_failed"
    /\ \E i \in 1..Len(log) : log[i].event = "parse_failed"
====
